---- MODULE Spec2Model ----
(***************************************************************************)
(* Opacus: relay (opacus-rust/src/relay.rs), security manager              *)
(* (crypto/security.rs), frame codec (proto.rs) and client (client.rs).    *)
(*                                                                         *)
(* The relay runs one handler task per connection on a multi-threaded      *)
(* scheduler; the agent table and the offline queue are concurrent maps    *)
(* (DashMap).  A handler step below is one access to a shared map together *)
(* with the handler-local code that precedes it.                           *)
(***************************************************************************)
EXTENDS Integers, Sequences, FiniteSets, TLC

\* ---------------------------------------------------------------- bounds
MaxConns == 3          \* connections accepted by the relay
MaxRecv == 3           \* datagrams read by the relay over all connections
MaxSends == 4          \* datagrams the clients send, over all clients
MaxCalls == 3          \* validate_nonce calls
MaxTicks == 2          \* clock advances
MaxFrames == 1         \* frames built with create_auth_frame
MaxDeliver == 2        \* frames handed to verify_auth_frame
MaxOps == 4            \* operations called and datagrams delivered

Conns == 1..MaxConns
AgentIds == {"a", "b"}
None == "none"         \* Option::None of agent_id
RelayId == "relay"

\* the recipient send_stream addresses
Broadcast == "broadcast"

\* ---------------------------------------------------------------- generic maps
Insert(m, k, v) == [x \in (DOMAIN m) \cup {k} |-> IF x = k THEN v ELSE m[x]]

Remove(m, k) == [x \in (DOMAIN m) \ {k} |-> m[x]]

EmptyMap == [x \in {} |-> 0]

\* ---------------------------------------------------------------- hex strings and keys
\* A 32-byte key is an integer; 0 is the all-zero key.
ZeroKey == 0

\* A JSON field read with as_str(): str = it is a string, hex = its characters
\* are hex digits, len = the number of bytes it decodes to, v = those bytes.
ToHex(k) == [str |-> TRUE, hex |-> TRUE, len |-> 32, v |-> k]

NoStr == [str |-> FALSE, hex |-> FALSE, len |-> 0, v |-> 0]

EmptyStr == [str |-> TRUE, hex |-> TRUE, len |-> 0, v |-> 0]

FromHex(h) == [ok |-> h.hex, len |-> h.len, v |-> h.v]

\* payload["k"].as_str().unwrap_or("") |> from_hex |> try_into |> unwrap_or([0; 32])
DecodeKey32(field) ==
    LET s == IF field.str THEN field ELSE EmptyStr
        b == FromHex(s)
    IN  IF b.ok /\ b.len = 32 THEN b.v ELSE ZeroKey

\* ---------------------------------------------------------------- payloads
\* json = serde_json::from_slice succeeds; the fields are those the code reads.
RawBytes(d) ==
    [json |-> FALSE, edPub |-> NoStr, xPub |-> NoStr, relayXPub |-> NoStr, data |-> d]

EmptyPayload == RawBytes(0)

ConnectPayload(ed_pub, x_pub) ==
    [json |-> TRUE, edPub |-> ToHex(ed_pub), xPub |-> ToHex(x_pub),
     relayXPub |-> NoStr, data |-> 0]

\* ---------------------------------------------------------------- frames and codec
FrameTypes == {"Connect", "Msg", "Ping", "Ack", "Stream", "Payment"}

\* serde(rename_all = "lowercase")
WireName(t) ==
    CASE t = "Connect" -> "connect"
      [] t = "Msg" -> "msg"
      [] t = "Ping" -> "ping"
      [] t = "Ack" -> "ack"
      [] t = "Stream" -> "stream"
      [] t = "Payment" -> "payment"

WireNames == {WireName(t) : t \in FrameTypes}

FromWire(w) == CHOOSE t \in FrameTypes : WireName(t) = w

\* Option<T>: <<>> is None, <<x>> is Some(x)
NoneOpt == << >>

\* "<ms>-<16 hex>" as the parts split('-') yields; num = the part parses as u128
NumPart(n) == [num |-> TRUE, v |-> n]

HexPart(r) == [num |-> FALSE, v |-> r]

EmptyNonce == << HexPart(0) >>

NoFrame ==
    [version |-> 0, frame_type |-> "Ping", from |-> "", to |-> "", seq |-> 0, ts |-> 0,
     nonce |-> EmptyNonce, payload |-> EmptyPayload, hmac |-> NoneOpt, sig |-> NoneOpt]

\* CBORCodec::encode: a map with the field names of OpacusFrame, frame_type
\* renamed to "type" and its variant lowercased.
Encode(f) ==
    [cbor |-> TRUE, version |-> f.version, type |-> WireName(f.frame_type),
     from |-> f.from, to |-> f.to, seq |-> f.seq, ts |-> f.ts, nonce |-> f.nonce,
     payload |-> f.payload, hmac |-> f.hmac, sig |-> f.sig]

\* a datagram that is not a CBOR map of a frame
Garbage ==
    [cbor |-> FALSE, version |-> 0, type |-> "", from |-> "", to |-> "", seq |-> 0,
     ts |-> 0, nonce |-> EmptyNonce, payload |-> EmptyPayload, hmac |-> NoneOpt,
     sig |-> NoneOpt]

\* a decoder that reads no signature
DecodeUnsigned(d) ==
    IF d.cbor /\ d.type \in WireNames
    THEN [ok |-> TRUE,
          frame |-> [version |-> d.version, frame_type |-> FromWire(d.type),
                     from |-> d.from, to |-> d.to, seq |-> d.seq, ts |-> d.ts,
                     nonce |-> d.nonce, payload |-> d.payload, hmac |-> d.hmac,
                     sig |-> NoneOpt]]
    ELSE [ok |-> FALSE, frame |-> NoFrame]

\* CBORCodec::decode
Decode(d) ==
    IF d.cbor /\ d.type \in WireNames
    THEN [ok |-> TRUE,
          frame |-> [version |-> d.version, frame_type |-> FromWire(d.type),
                     from |-> d.from, to |-> d.to, seq |-> d.seq, ts |-> d.ts,
                     nonce |-> d.nonce, payload |-> d.payload, hmac |-> d.hmac,
                     sig |-> d.sig]]
    ELSE [ok |-> FALSE, frame |-> NoFrame]

\* ---------------------------------------------------------------- state
VARIABLES
    now,          \* SystemTime::now() in ms
    nticks,       \* number of clock advances so far
    \* relay
    agents,       \* agent table, id -> ConnectedAgent
    pending,      \* offline queue, id -> Seq(frame)
    agent_id,     \* handler local: agent_id
    pc,           \* handler position
    cur,          \* handler local: the frame route_frame is called with
    msgs,         \* handler local: queued frames not yet re-routed by the flush loop
    rcvd,         \* per connection: the frames the handler decoded, in receive order
    sent,         \* per connection: the datagrams the relay transmitted on it
    nrecv,        \* number of datagrams read so far, over all connections
    flushed,      \* per connection: the queue its latest Connect removed
    last_reg,     \* per agent id: the connection that registered it last (0: none)
    late,         \* per agent id: a frame addressed to it was read after last_reg was set
    \* clients, one per agent id
    conn,         \* OpacusClient.transport: its connection, 0 when None
    cseq,         \* OpacusClient.seq
    relay_x_pub,  \* OpacusClient.relay_x_pub
    acked,        \* the client has received the Ack of its current connection
    rpos,         \* number of datagrams the client has read from its connection
    got,          \* the frame recv() returned and the application has not verified yet
    verdicts,     \* per client: the frames it verified, each with the result
    after_ack,    \* nonces of the frames sent when sender and recipient had their Ack
    \* security managers, one per agent id
    nonce_window, \* SecurityManager.nonce_window, nonce -> ms of acceptance
    last_nonce,   \* SecurityManager.last_nonce
    accepts,      \* per manager and nonce: how often validate_nonce returned true
    ncalls,       \* number of validate_nonce calls so far
    made,         \* the frame create_auth_frame returned last, with the peer key used
    last_call,    \* the latest validate_nonce call: manager, nonce, time, result, window before
    \* the codec and the key manager called on their own
    wire,         \* the frame given to CBORCodec::encode last, with the bytes returned
    decoded,      \* what CBORCodec::decode returned for those bytes
    ids,          \* the identities generate_identity and init_from_keys returned, in order
    \* the H3DAC SDK client
    session,      \* H3DACClient.session
    reply,        \* the latest SDK operation: how it returned, is_authenticated() at that time
    \* one client and one transport driven through their public operations
    has_identity, \* OpacusClient.identity is Some
    transport,    \* OpacusClient.transport, or the QUICTransport driven directly
    nconn,        \* connections opened so far by QUICTransport::connect
    closed,       \* close() or disconnect() was called and has returned
    out,          \* the latest operation and how it returned
    nops          \* operations called and datagrams delivered so far

relayVars == << agents, pending, agent_id, pc, cur, msgs, rcvd, sent, nrecv, flushed,
                last_reg, late >>

clientVars == << conn, cseq, relay_x_pub, acked, rpos, got, verdicts, after_ack >>

secVars == << nonce_window, last_nonce, accepts, ncalls >>

clockVars == << now, nticks >>

pureVars == << wire, decoded, ids, session, reply >>

auditVars == << made, last_call, pureVars >>

apiVars == << has_identity, transport, nconn, closed, out, nops >>

vars == << clockVars, relayVars, clientVars, secVars, auditVars, apiVars >>

\* ---------------------------------------------------------------- identities
\* The key material behind each agent id (see KeyManager::generate_identity).
EdPrivOf(id) == IF id = "a" THEN 1 ELSE 2

XPrivOf(id) == IF id = "a" THEN 3 ELSE 4

\* public key of a private key: an injective map that never yields the zero key
PubOf(priv) == priv + 10

Identity(id) ==
    [id |-> id, ed_pub |-> PubOf(EdPrivOf(id)), ed_priv |-> EdPrivOf(id),
     x_pub |-> PubOf(XPrivOf(id)), x_priv |-> XPrivOf(id)]

\* SHA-256, its first 20 bytes and hex::encode: injective on the values used
Sha256(bytes) == [sha256 |-> bytes]

First20(hash) == [first20 |-> hash]

HexEncode(bytes) == [hex |-> bytes]

\* format!("0x{}", s)
With0x(s) == << "0x", s >>

\* keys.rs:38-42, client.rs:65-69  the id of a signing public key
IdOf(ed_pub) == HexEncode(First20(Sha256(ed_pub)))

\* an address taken from the whole hash
AddressOfWholeHash(ed_pub) == With0x(HexEncode(Sha256(ed_pub)))

\* keys.rs:43, client.rs:70  the address of a signing public key
AddressOf(ed_pub) == With0x(HexEncode(First20(Sha256(ed_pub))))

\* KeyManager::generate_identity(chain_id), ed_priv and x_priv being the keys
\* that generate_ed25519 and generate_x25519 drew
generate_identity(chain_id, ed_priv, x_priv) ==
    [id |-> IdOf(PubOf(ed_priv)), ed_pub |-> PubOf(ed_priv), ed_priv |-> ed_priv,
     x_pub |-> PubOf(x_priv), x_priv |-> x_priv, address |-> AddressOf(PubOf(ed_priv)),
     chain_id |-> chain_id]

\* OpacusClient::init_from_keys(ed_priv, x_priv) of a client configured for chain_id
init_from_keys(ed_priv, x_priv, chain_id) ==
    [id |-> IdOf(PubOf(ed_priv)), ed_pub |-> PubOf(ed_priv), ed_priv |-> ed_priv,
     x_pub |-> PubOf(x_priv), x_priv |-> x_priv, address |-> AddressOf(PubOf(ed_priv)),
     chain_id |-> chain_id]

\* the id the peer on connection c writes in the from field of its frames: the
\* one of its latest Connect
Sender(c) == IF agent_id[c] # None THEN agent_id[c] ELSE "a"

\* ---------------------------------------------------------------- security manager
Min(x, y) == IF x <= y THEN x ELSE y

Max(x, y) == IF x <= y THEN y ELSE x

\* a key agreement whose result depends on the side that computes it
derive_shared_secret_onesided(my_priv, peer_pub) ==
    IF peer_pub = ZeroKey THEN << 0, 0 >> ELSE << my_priv, peer_pub - 10 >>

\* X25519: the secret of a private key and the public key of another private
\* key is the same from both sides; with the all-zero point it is all zero
derive_shared_secret(my_priv, peer_pub) ==
    IF peer_pub = ZeroKey THEN << 0, 0 >>
    ELSE << Min(my_priv, peer_pub - 10), Max(my_priv, peer_pub - 10) >>

\* HKDF-SHA256: a key determined by the input key material and the info label
derive_session_key(shared, info) == [ikm |-> shared, info |-> info]

\* HMAC-SHA256: a tag determined by key and data
generate_hmac(key, data) == [key |-> key, data |-> data]

verify_hmac(key, data, expected) == generate_hmac(key, data) = expected

\* Ed25519: a signature is valid for the public key of its signing key and for
\* the message signed
sign(priv_key, message) == [signer |-> PubOf(priv_key), message |-> message]

\* a verification that checks the signer and not the message
verify_signer_only(pub_key, message, sig) == sig.signer = pub_key

verify(pub_key, message, sig) == sig.signer = pub_key /\ sig.message = message

\* format!("{}-{:016x}", ts, rand)
generate_nonce(ts, rand) == << NumPart(ts), HexPart(rand) >>

\* the subtraction with its operands exchanged
SatSubSwapped(x, y) == IF y >= x THEN y - x ELSE 0

\* now.saturating_sub(ts)
SatSub(x, y) == IF x >= y THEN x - y ELSE 0

\* a sweep that keeps the entries whose age equals max_age
cleanup_nonces_inclusive(window, max_age, t) ==
    LET keep == {n \in DOMAIN window : t - window[n] <= max_age}
    IN  [n \in keep |-> window[n]]

\* cleanup_nonces: nonce_window.retain(|_, ts| now - *ts < max_age)
cleanup_nonces(window, max_age, t) ==
    LET keep == {n \in DOMAIN window : t - window[n] < max_age}
    IN  [n \in keep |-> window[n]]

\* validate_nonce at time t: the result and the window it leaves
validate_nonce(window, nonce, max_age_ms, t) ==
    IF Len(nonce) # 2 THEN [ok |-> FALSE, window |-> window]
    ELSE IF ~nonce[1].num THEN [ok |-> FALSE, window |-> window]
    ELSE IF SatSub(t, nonce[1].v) > max_age_ms THEN [ok |-> FALSE, window |-> window]
    ELSE IF nonce \in DOMAIN window THEN [ok |-> FALSE, window |-> window]
    ELSE [ok |-> TRUE,
          window |-> cleanup_nonces(Insert(window, nonce, t), max_age_ms * 2, t)]

SessionLabel == "opacus-session"

NonceMaxAge == 60000

\* an HMAC input that leaves the payload out
HmacDataNoPayload(f) == << f.frame_type, f.from, f.to, f.seq, f.ts, f.nonce >>

HmacData(f) == << f.frame_type, f.from, f.to, f.seq, f.ts, f.nonce, f.payload >>

\* a signing input that leaves the nonce out
SignDataNoNonce(f, hmac) ==
    << f.version, f.frame_type, f.from, f.to, f.seq, f.ts, hmac >>

SignData(f, hmac) ==
    << f.version, f.frame_type, f.from, f.to, f.seq, f.ts, f.nonce, hmac >>

\* create_auth_frame with last_nonce already incremented to seq
create_auth_frame(identity, peer_x_pub, frame_type, to, payload, seq, t, rand) ==
    LET shared == derive_shared_secret(identity.x_priv, peer_x_pub)
        session_key == derive_session_key(shared, SessionLabel)
        unsigned == [version |-> 1, frame_type |-> frame_type, from |-> identity.id,
                     to |-> to, seq |-> seq, ts |-> t,
                     nonce |-> generate_nonce(t, rand), payload |-> payload,
                     hmac |-> NoneOpt, sig |-> NoneOpt]
        hmac == generate_hmac(session_key, HmacData(unsigned))
    IN  [unsigned EXCEPT !.hmac = << hmac >>,
                         !.sig = << sign(identity.ed_priv, SignData(unsigned, hmac)) >>]

\* a verification that validates, and records, the nonce after its other checks
verify_auth_frame_nonce_last(window, frame, sender_ed_pub, my_x_priv, sender_x_pub, t) ==
    LET n == validate_nonce(window, frame.nonce, NonceMaxAge, t)
        session_key ==
            derive_session_key(derive_shared_secret(my_x_priv, sender_x_pub), SessionLabel)
    IN  IF frame.hmac = NoneOpt THEN [res |-> "Missing HMAC", window |-> window]
        ELSE IF frame.sig = NoneOpt THEN [res |-> "Missing signature", window |-> window]
        ELSE IF ~verify(sender_ed_pub, SignData(frame, frame.hmac[1]), frame.sig[1])
             THEN [res |-> "Invalid signature", window |-> window]
        ELSE IF ~verify_hmac(session_key, HmacData(frame), frame.hmac[1])
             THEN [res |-> "HMAC mismatch", window |-> window]
        ELSE IF ~n.ok THEN [res |-> "Invalid or replayed nonce", window |-> n.window]
        ELSE [res |-> "Ok", window |-> n.window]

\* a verification that compares the HMAC before it verifies the signature
verify_auth_frame_hmac_first(window, frame, sender_ed_pub, my_x_priv, sender_x_pub, t) ==
    LET n == validate_nonce(window, frame.nonce, NonceMaxAge, t)
        session_key ==
            derive_session_key(derive_shared_secret(my_x_priv, sender_x_pub), SessionLabel)
    IN  IF ~n.ok THEN [res |-> "Invalid or replayed nonce", window |-> n.window]
        ELSE IF frame.hmac = NoneOpt THEN [res |-> "Missing HMAC", window |-> n.window]
        ELSE IF frame.sig = NoneOpt THEN [res |-> "Missing signature", window |-> n.window]
        ELSE IF ~verify_hmac(session_key, HmacData(frame), frame.hmac[1])
             THEN [res |-> "HMAC mismatch", window |-> n.window]
        ELSE IF ~verify(sender_ed_pub, SignData(frame, frame.hmac[1]), frame.sig[1])
             THEN [res |-> "Invalid signature", window |-> n.window]
        ELSE [res |-> "Ok", window |-> n.window]

\* verify_auth_frame at time t: the result and the nonce window it leaves
verify_auth_frame(window, frame, sender_ed_pub, my_x_priv, sender_x_pub, t) ==
    LET n == validate_nonce(window, frame.nonce, NonceMaxAge, t)
        session_key ==
            derive_session_key(derive_shared_secret(my_x_priv, sender_x_pub), SessionLabel)
    IN  IF ~n.ok THEN [res |-> "Invalid or replayed nonce", window |-> n.window]
        ELSE IF frame.hmac = NoneOpt THEN [res |-> "Missing HMAC", window |-> n.window]
        ELSE IF frame.sig = NoneOpt THEN [res |-> "Missing signature", window |-> n.window]
        ELSE IF ~verify(sender_ed_pub, SignData(frame, frame.hmac[1]), frame.sig[1])
             THEN [res |-> "Invalid signature", window |-> n.window]
        ELSE IF ~verify_hmac(session_key, HmacData(frame), frame.hmac[1])
             THEN [res |-> "HMAC mismatch", window |-> n.window]
        ELSE [res |-> "Ok", window |-> n.window]

\* ---------------------------------------------------------------- relay
NewAgent(frame, c) ==
    [id |-> frame.from, connection |-> c,
     ed_pub |-> DecodeKey32(frame.payload.edPub),
     x_pub |-> DecodeKey32(frame.payload.xPub),
     last_seen |-> now \div 1000]

AckFrame(to) ==
    [version |-> 1, frame_type |-> "Ack", from |-> RelayId, to |-> to, seq |-> 0,
     ts |-> now, nonce |-> EmptyNonce, payload |-> EmptyPayload,
     hmac |-> NoneOpt, sig |-> NoneOpt]

\* send_datagram on connection c: Err(ConnectionLost) once c is closed, and the
\* callers ignore the error
SendOn(s, c, d, via) ==
    IF pc[c] # "done" THEN [s EXCEPT ![c] = Append(@, [dg |-> d, via |-> via])] ELSE s

\* a relay that stamps the frames it routes the way it stamps its Ack
RoutedDatagramRestamped(frame) ==
    Encode([frame EXCEPT !.ts = now, !.nonce = EmptyNonce])

\* route_frame, recipient present: the datagram it transmits for frame
RoutedDatagram(frame) == Encode(frame)

\* a push at the head of the queue
EnqueueFront(p, frame) ==
    IF frame.to \in DOMAIN p
    THEN [p EXCEPT ![frame.to] = << frame >> \o @]
    ELSE Insert(p, frame.to, << frame >>)

\* a push that stores the frame twice
EnqueueTwice(p, frame) ==
    IF frame.to \in DOMAIN p
    THEN [p EXCEPT ![frame.to] = @ \o << frame, frame >>]
    ELSE Insert(p, frame.to, << frame, frame >>)

\* route_frame, recipient absent: pending.entry(to).or_insert_with(Vec::new).push(frame)
Enqueue(p, frame) ==
    IF frame.to \in DOMAIN p
    THEN [p EXCEPT ![frame.to] = Append(@, frame)]
    ELSE Insert(p, frame.to, << frame >>)

\* a handler that also drops the queue of its agent when it exits
AfterDisconnectPurge(id) ==
    [agents |-> Remove(agents, id), pending |-> Remove(pending, id)]

\* end of handle_connection: the tables after the handler of agent id has exited
AfterDisconnect(id) ==
    [agents |-> Remove(agents, id), pending |-> pending]

RECURSIVE SumLen(_, _)
SumLen(p, S) ==
    IF S = {} THEN 0
    ELSE LET k == CHOOSE k \in S : TRUE IN Len(p[k]) + SumLen(p, S \ {k})

get_pending_count == SumLen(pending, DOMAIN pending)

\* the random part of the nonce of the next frame sent on connection c
Rand(c) == 10 * c + Len(rcvd[c])

\* connections are numbered in the order of their first datagram
InUse(c) == \A d \in Conns : d < c => rcvd[d] # << >>

\* the handler of c is in read_datagram and a datagram may arrive
CanRead(c, bound) == pc[c] = "read" /\ InUse(c) /\ nrecv < bound

Logged(c, frame) == [rcvd EXCEPT ![c] = Append(@, frame)]

\* relay.rs:116-144  a Connect frame: set agent_id, parse the payload, insert the record
HandleConnect(c, frame) ==
    /\ frame.frame_type = "Connect"
    /\ nrecv' = nrecv + 1
    /\ rcvd' = Logged(c, frame)
    /\ agent_id' = [agent_id EXCEPT ![c] = frame.from]
    /\ flushed' = [flushed EXCEPT ![c] = << >>]
    /\ IF frame.payload.json
       THEN /\ agents' = Insert(agents, frame.from, NewAgent(frame, c))
            /\ last_reg' = [last_reg EXCEPT ![frame.from] = c]
            /\ late' = [late EXCEPT ![frame.from] = FALSE]
            /\ pc' = [pc EXCEPT ![c] = "ack"]
       ELSE UNCHANGED << agents, last_reg, late, pc >>
    /\ UNCHANGED << pending, cur, msgs, sent >>

\* route_frame up to the lookup (relay.rs:200-206): transmit when the recipient
\* has a record, otherwise go on to the push with pcAbsent
RouteLookup(c, frame, via, pcPresent, pcAbsent) ==
    IF frame.to \in DOMAIN agents
    THEN /\ sent' = SendOn(sent, agents[frame.to].connection, RoutedDatagram(frame), via)
         /\ pc' = [pc EXCEPT ![c] = pcPresent]
         /\ cur' = cur
    ELSE /\ cur' = [cur EXCEPT ![c] = frame]
         /\ pc' = [pc EXCEPT ![c] = pcAbsent]
         /\ sent' = sent

\* relay.rs:176  any other frame: route_frame
HandleFrame(c, frame) ==
    /\ frame.frame_type # "Connect"
    /\ nrecv' = nrecv + 1
    /\ rcvd' = Logged(c, frame)
    /\ late' = [late EXCEPT ![frame.to] = TRUE]
    /\ RouteLookup(c, frame, "route", "read", "rpush")
    /\ UNCHANGED << agents, pending, agent_id, msgs, flushed, last_reg >>

\* the frames a peer may put in a datagram on connection c:
\* the payload OpacusClient::connect builds for identity id, or bytes that are not JSON
ConnectPayloads(id) ==
    {ConnectPayload(Identity(id).ed_pub, Identity(id).x_pub), RawBytes(1)}

ConnectFrames(c) ==
    UNION { { [version |-> 1, frame_type |-> "Connect", from |-> id, to |-> RelayId,
               seq |-> Len(rcvd[c]), ts |-> now, nonce |-> generate_nonce(now, Rand(c)),
               payload |-> pl, hmac |-> NoneOpt, sig |-> NoneOpt] :
              pl \in ConnectPayloads(id) } : id \in AgentIds }

MsgFrames(c) ==
    { [version |-> 1, frame_type |-> "Msg", from |-> Sender(c), to |-> to,
       seq |-> Len(rcvd[c]), ts |-> now, nonce |-> generate_nonce(now, Rand(c)),
       payload |-> RawBytes(2), hmac |-> NoneOpt, sig |-> NoneOpt] :
      to \in AgentIds }

\* a handler that gives up on a datagram that does not decode
DecodeErrorFatal(c) ==
    /\ CanRead(c, MaxRecv)
    /\ ~Decode(Garbage).ok
    /\ nrecv' = nrecv + 1
    /\ pc' = [pc EXCEPT ![c] = "done"]
    /\ UNCHANGED << agents, pending, agent_id, cur, msgs, rcvd, sent, flushed,
                    last_reg, late >>
    /\ UNCHANGED << clockVars, auditVars, apiVars, clientVars, secVars >>

\* relay.rs:114,179  the datagram does not decode: logged and skipped
DecodeError(c) ==
    /\ CanRead(c, MaxRecv)
    /\ ~Decode(Garbage).ok
    /\ nrecv' = nrecv + 1
    /\ UNCHANGED << agents, pending, agent_id, pc, cur, msgs, rcvd, sent, flushed,
                    last_reg, late >>
    /\ UNCHANGED << clockVars, auditVars, apiVars, clientVars, secVars >>

\* relay.rs:112-144  a datagram holding a Connect frame arrives on c
OnConnect(c) ==
    /\ CanRead(c, MaxRecv)
    /\ \E f \in ConnectFrames(c) :
         Decode(Encode(f)).ok /\ HandleConnect(c, Decode(Encode(f)).frame)
    /\ UNCHANGED << clockVars, auditVars, apiVars, clientVars, secVars >>

\* relay.rs:112-115,176  a datagram holding another frame arrives on c
OnFrame(c) ==
    /\ CanRead(c, MaxRecv)
    /\ \E f \in MsgFrames(c) :
         Decode(Encode(f)).ok /\ HandleFrame(c, Decode(Encode(f)).frame)
    /\ UNCHANGED << clockVars, auditVars, apiVars, clientVars, secVars >>

\* relay.rs:146-164  send the Ack
SendAck(c) ==
    /\ pc[c] = "ack"
    /\ sent' = SendOn(sent, c, Encode(AckFrame(agent_id[c])), "ack")
    /\ pc' = [pc EXCEPT ![c] = "remove"]
    /\ UNCHANGED << agents, pending, agent_id, cur, msgs, rcvd, nrecv, flushed,
                    last_reg, late >>
    /\ UNCHANGED << clockVars, auditVars, apiVars, clientVars, secVars >>

\* relay.rs:167  pending.remove(&frame.from)
RemovePending(c) ==
    /\ pc[c] = "remove"
    /\ IF agent_id[c] \in DOMAIN pending
       THEN /\ msgs' = [msgs EXCEPT ![c] = pending[agent_id[c]]]
            /\ flushed' = [flushed EXCEPT ![c] = pending[agent_id[c]]]
            /\ pending' = Remove(pending, agent_id[c])
            /\ pc' = [pc EXCEPT ![c] = "flush"]
       ELSE /\ pc' = [pc EXCEPT ![c] = "read"]
            /\ UNCHANGED << msgs, flushed, pending >>
    /\ UNCHANGED << agents, agent_id, cur, rcvd, sent, nrecv, last_reg, late >>
    /\ UNCHANGED << clockVars, auditVars, apiVars, clientVars, secVars >>

\* relay.rs:210-212 for a frame read from the connection
RoutePush(c) ==
    /\ pc[c] = "rpush"
    /\ pending' = Enqueue(pending, cur[c])
    /\ cur' = [cur EXCEPT ![c] = NoFrame]
    /\ pc' = [pc EXCEPT ![c] = "read"]
    /\ UNCHANGED << agents, agent_id, msgs, rcvd, sent, nrecv, flushed, last_reg, late >>
    /\ UNCHANGED << clockVars, auditVars, apiVars, clientVars, secVars >>

\* relay.rs:169-171  one iteration of the flush loop, up to route_frame's lookup
FlushRoute(c) ==
    /\ pc[c] = "flush"
    /\ msgs' = [msgs EXCEPT ![c] = Tail(@)]
    /\ RouteLookup(c, Head(msgs[c]), "flush",
                   IF Tail(msgs[c]) = << >> THEN "read" ELSE "flush", "fpush")
    /\ UNCHANGED << agents, pending, agent_id, rcvd, nrecv, flushed, last_reg, late >>
    /\ UNCHANGED << clockVars, auditVars, apiVars, clientVars, secVars >>

\* relay.rs:210-212 for a frame of the flush loop
FlushPush(c) ==
    /\ pc[c] = "fpush"
    /\ pending' = Enqueue(pending, cur[c])
    /\ cur' = [cur EXCEPT ![c] = NoFrame]
    /\ pc' = [pc EXCEPT ![c] = IF msgs[c] = << >> THEN "read" ELSE "flush"]
    /\ UNCHANGED << agents, agent_id, msgs, rcvd, sent, nrecv, flushed, last_reg, late >>
    /\ UNCHANGED << clockVars, auditVars, apiVars, clientVars, secVars >>

\* relay.rs:182-192  read_datagram fails (the peer closed the connection or it
\* was lost): leave the loop, remove agent_id
Disconnect(c) ==
    /\ pc[c] = "read"
    /\ InUse(c)
    /\ \A k \in AgentIds : conn[k] # c
    /\ pc' = [pc EXCEPT ![c] = "done"]
    /\ IF agent_id[c] # None
       THEN /\ agents' = AfterDisconnect(agent_id[c]).agents
            /\ pending' = AfterDisconnect(agent_id[c]).pending
       ELSE UNCHANGED << agents, pending >>
    /\ UNCHANGED << agent_id, cur, msgs, rcvd, sent, nrecv, flushed, last_reg, late >>
    /\ UNCHANGED << clockVars, auditVars, apiVars, clientVars, secVars >>

\* before any operation of the SDK client
NoReply == [op |-> "new", res |-> "Ok", auth |-> FALSE]

\* before any validate_nonce call
NoCall == [k |-> "a", nonce |-> EmptyNonce, at |-> 0, ok |-> FALSE, before |-> EmptyMap]

\* before any operation was called.  id, tr: the client had an identity, a
\* transport existed, when the operation was called; left: the length of the
\* inbound queue at the latest close() or disconnect()
NoOut == [op |-> "new", res |-> "ok", id |-> FALSE, tr |-> FALSE, left |-> 0]

\* the relay after new() and start(), the security managers after new(), the
\* clients after new() and, when initialised, after init(); tr is the
\* transport under test after n connections
StartWith(initialised, tr, n) ==
    /\ now = 0
    /\ nticks = 0
    /\ agents = EmptyMap
    /\ pending = EmptyMap
    /\ agent_id = [c \in Conns |-> None]
    /\ pc = [c \in Conns |-> "read"]
    /\ cur = [c \in Conns |-> NoFrame]
    /\ msgs = [c \in Conns |-> << >>]
    /\ rcvd = [c \in Conns |-> << >>]
    /\ sent = [c \in Conns |-> << >>]
    /\ nrecv = 0
    /\ flushed = [c \in Conns |-> << >>]
    /\ last_reg = [id \in AgentIds \cup {Broadcast} |-> 0]
    /\ late = [id \in AgentIds \cup {Broadcast} |-> FALSE]
    /\ conn = [k \in AgentIds |-> 0]
    /\ cseq = [k \in AgentIds |-> 0]
    /\ relay_x_pub = [k \in AgentIds |-> NoneOpt]
    /\ acked = [k \in AgentIds |-> FALSE]
    /\ rpos = [k \in AgentIds |-> 0]
    /\ got = [k \in AgentIds |-> << >>]
    /\ verdicts = [k \in AgentIds |-> << >>]
    /\ after_ack = {}
    /\ nonce_window = [k \in AgentIds |-> EmptyMap]
    /\ last_nonce = [k \in AgentIds |-> 0]
    /\ accepts = [k \in AgentIds |-> EmptyMap]
    /\ ncalls = 0
    /\ made = {}
    /\ last_call = NoCall
    /\ wire = NoneOpt
    /\ decoded = NoneOpt
    /\ ids = << >>
    /\ session = NoneOpt
    /\ reply = NoReply
    /\ has_identity = [k \in AgentIds |-> initialised]
    /\ transport = tr
    /\ nconn = n
    /\ closed = FALSE
    /\ out = NoOut
    /\ nops = 0

\* no transport yet
Start(initialised) == StartWith(initialised, NoneOpt, 0)

Init == Start(TRUE)

\* the relay serving arbitrary peers
Next ==
    \E c \in Conns :
        \/ DecodeError(c)
        \/ OnConnect(c)
        \/ SendAck(c)
        \/ RemovePending(c)
        \/ OnFrame(c)
        \/ RoutePush(c)
        \/ FlushRoute(c)
        \/ FlushPush(c)
        \/ Disconnect(c)

Spec == Init /\ [][Next]_vars

\* ---------------------------------------------------------------- security manager: calls
\* the clock advances by a millisecond or by the freshness window
TickSteps == {1, NonceMaxAge}

Tick ==
    /\ nticks < MaxTicks
    /\ \E d \in TickSteps : now' = now + d
    /\ nticks' = nticks + 1
    /\ UNCHANGED << relayVars, clientVars, secVars, auditVars, apiVars >>

\* timestamps a caller may put in a nonce: now, ahead of the clock, behind it
NonceTimes == {0, NonceMaxAge, 2 * NonceMaxAge}

\* nonce strings: well formed ones, one without '-', one with two '-', one whose
\* first part is not a number
NonceInputs ==
    {generate_nonce(ts, r) : ts \in NonceTimes, r \in {1, 2}}
        \cup {EmptyNonce, << NumPart(0), HexPart(1), HexPart(2) >>,
              << HexPart(1), HexPart(1) >>}

Count(h, n) == IF n \in DOMAIN h THEN h[n] ELSE 0

\* a call validate_nonce(n, 60000) on the manager of k
ValidateCall(k) ==
    /\ ncalls < MaxCalls
    /\ ncalls' = ncalls + 1
    /\ \E n \in NonceInputs :
         LET r == validate_nonce(nonce_window[k], n, NonceMaxAge, now)
         IN  /\ nonce_window' = [nonce_window EXCEPT ![k] = r.window]
             /\ accepts' = IF r.ok
                           THEN [accepts EXCEPT ![k] = Insert(@, n, Count(@, n) + 1)]
                           ELSE accepts
             /\ last_call' = [k |-> k, nonce |-> n, at |-> now, ok |-> r.ok,
                              before |-> nonce_window[k]]
    /\ UNCHANGED << last_nonce, made, pureVars, clockVars, relayVars, clientVars, apiVars >>

NextNonce ==
    \/ Tick
    \/ \E k \in AgentIds : ValidateCall(k)

SpecNonce == Init /\ [][NextNonce]_vars

\* ---------------------------------------------------------------- security manager: properties
\* C3: for one security manager and one nonce string, at most one call of
\* validate_nonce returns true, whatever the times of the calls and the
\* timestamp in the nonce (ahead of the clock or not, before or after a sweep).
C3_NonceAcceptedOnce ==
    \A k \in AgentIds : \A n \in DOMAIN accepts[k] : accepts[k][n] <= 1

\* the timestamp parsed from nonce n is more than max_age_ms before time t
Stale(n, max_age_ms, t) == Len(n) = 2 /\ n[1].num /\ t - n[1].v > max_age_ms

\* C15: validate_nonce returns false whenever the current time minus the
\* timestamp parsed from the nonce exceeds max_age_ms, and then leaves the
\* nonce window as it was.
C15_StaleRejected ==
    Stale(last_call.nonce, NonceMaxAge, last_call.at) =>
        /\ ~last_call.ok
        /\ nonce_window[last_call.k] = last_call.before

C15_Witness ==
    /\ ncalls > 0
    /\ Stale(last_call.nonce, NonceMaxAge, last_call.at)
    /\ last_call.at - last_call.nonce[1].v = NonceMaxAge + 1
    /\ last_call.before # EmptyMap
    /\ ~last_call.ok

\* C38: after every accepted call validate_nonce(n, max_age_ms) the window
\* holds n and holds no entry accepted 2 * max_age_ms or more before the call;
\* a rejected call leaves the window as it was.
C38_WindowBound ==
    ncalls > 0 =>
        LET w == nonce_window[last_call.k]
        IN  IF last_call.ok
            THEN /\ last_call.nonce \in DOMAIN w
                 /\ w[last_call.nonce] = last_call.at
                 /\ \A n \in DOMAIN w : last_call.at - w[n] < 2 * NonceMaxAge
                 /\ \A n \in DOMAIN last_call.before :
                       last_call.at - last_call.before[n] < 2 * NonceMaxAge
                         => n \in DOMAIN w /\ w[n] = last_call.before[n]
            ELSE w = last_call.before

\* an accepted call has swept an entry that was exactly 2 * max_age_ms old
C38_Witness ==
    /\ ncalls > 0
    /\ last_call.ok
    /\ \E n \in DOMAIN last_call.before :
          /\ n \notin DOMAIN nonce_window[last_call.k]
          /\ last_call.at - last_call.before[n] = 2 * NonceMaxAge

\* ---------------------------------------------------------------- clients
\* the payload the application sends
MsgPayload == RawBytes(2)

\* client.rs:87-130  connect(): a new transport and connection, then the Connect frame
ClientConnect(k) ==
    \E c \in Conns :
        /\ rcvd[c] = << >>
        /\ CanRead(c, MaxSends)
        /\ LET frame == [version |-> 1, frame_type |-> "Connect", from |-> Identity(k).id,
                         to |-> RelayId, seq |-> cseq[k], ts |-> now,
                         nonce |-> generate_nonce(now, Rand(c)),
                         payload |-> ConnectPayload(Identity(k).ed_pub, Identity(k).x_pub),
                         hmac |-> NoneOpt, sig |-> NoneOpt]
           IN  /\ Decode(Encode(frame)).ok
               /\ HandleConnect(c, Decode(Encode(frame)).frame)
        /\ cseq' = [cseq EXCEPT ![k] = @ + 1]
        /\ conn' = [conn EXCEPT ![k] = c]
        /\ rpos' = [rpos EXCEPT ![k] = 0]
        /\ acked' = [acked EXCEPT ![k] = FALSE]
        /\ UNCHANGED << relay_x_pub, got, verdicts, after_ack, clockVars, auditVars, apiVars, secVars >>

\* client.rs:137-154  send_message(to, MsgPayload) to the other agent
ClientSendMessage(k) ==
    /\ conn[k] # 0
    /\ CanRead(conn[k], MaxSends)
    /\ \E to \in AgentIds \ {Identity(k).id} :
         LET peer_x_pub == IF relay_x_pub[k] = NoneOpt THEN ZeroKey ELSE relay_x_pub[k][1]
             frame == create_auth_frame(Identity(k), peer_x_pub, "Msg", to, MsgPayload,
                                        last_nonce[k] + 1, now, Rand(conn[k]))
         IN  /\ Decode(Encode(frame)).ok
             /\ HandleFrame(conn[k], Decode(Encode(frame)).frame)
             /\ after_ack' = IF acked[k] /\ acked[to]
                             THEN after_ack \cup {frame.nonce}
                             ELSE after_ack
    /\ last_nonce' = [last_nonce EXCEPT ![k] = @ + 1]
    /\ UNCHANGED << conn, cseq, relay_x_pub, acked, rpos, got, verdicts, clockVars, auditVars, apiVars,
                    nonce_window, accepts, ncalls >>

\* a client that takes the key from an Ack of the relay only
StoredKeyRelayOnly(held, id, frame) ==
    LET key == FromHex(frame.payload.relayXPub)
    IN  IF /\ frame.frame_type = "Ack"
           /\ frame.from = RelayId
           /\ frame.payload.json
           /\ frame.payload.relayXPub.str
           /\ key.ok
           /\ key.len = 32
        THEN << key.v >>
        ELSE held

\* a client that takes a key of any length
StoredKeyAnyLength(held, id, frame) ==
    LET key == FromHex(frame.payload.relayXPub)
    IN  IF /\ frame.frame_type = "Ack"
           /\ frame.from # id
           /\ frame.payload.json
           /\ frame.payload.relayXPub.str
           /\ key.ok
        THEN << key.v >>
        ELSE held

\* client.rs:185-196  the relay key recv() holds after it took frame: the key
\* of an Ack from somebody else whose JSON payload has a string relayXPub that
\* is the hex of 32 bytes, the key held before otherwise
StoredKey(held, id, frame) ==
    LET key == FromHex(frame.payload.relayXPub)
    IN  IF /\ frame.frame_type = "Ack"
           /\ frame.from # id
           /\ frame.payload.json
           /\ frame.payload.relayXPub.str
           /\ key.ok
           /\ key.len = 32
        THEN << key.v >>
        ELSE held

\* client.rs:182-200 with quic.rs:66-85  recv(): the next datagram of the
\* connection that decodes; an Ack may carry the relay's key
ClientRecv(k) ==
    /\ conn[k] # 0
    /\ got[k] = << >>
    /\ rpos[k] < Len(sent[conn[k]])
    /\ rpos' = [rpos EXCEPT ![k] = @ + 1]
    /\ LET r == Decode(sent[conn[k]][rpos[k] + 1].dg)
           frame == r.frame
       IN  IF ~r.ok THEN UNCHANGED << relay_x_pub, acked, got >>
           ELSE /\ relay_x_pub' = [relay_x_pub EXCEPT ![k] = StoredKey(@, Identity(k).id, frame)]
                /\ acked' = [acked EXCEPT ![k] = @ \/ (frame.frame_type = "Ack"
                                                       /\ frame.from = RelayId)]
                /\ got' = IF frame.frame_type = "Ack" THEN got
                          ELSE [got EXCEPT ![k] = << frame >>]
    /\ UNCHANGED << conn, cseq, verdicts, after_ack, clockVars, auditVars, apiVars, relayVars, secVars >>

\* the application verifies the frame recv() returned, with the keys of the
\* agent named in its from field: verify_auth_frame(frame, S.ed_pub, k.x_priv, S.x_pub)
AppVerify(k) ==
    /\ got[k] # << >>
    /\ LET frame == got[k][1]
           S == Identity(frame.from)
           r == verify_auth_frame(nonce_window[k], frame, S.ed_pub, Identity(k).x_priv,
                                  S.x_pub, now)
       IN  /\ nonce_window' = [nonce_window EXCEPT ![k] = r.window]
           /\ verdicts' = [verdicts EXCEPT ![k] =
                              Append(@, [frame |-> frame, res |-> r.res, at |-> now,
                                         seen |-> frame.nonce \in DOMAIN nonce_window[k]])]
    /\ got' = [got EXCEPT ![k] = << >>]
    /\ UNCHANGED << conn, cseq, relay_x_pub, acked, rpos, after_ack, clockVars, auditVars, apiVars, relayVars,
                    last_nonce, accepts, ncalls >>

\* client.rs:222-227  disconnect(): take the transport and close its connection
ClientDisconnect(k) ==
    /\ conn[k] # 0
    /\ conn' = [conn EXCEPT ![k] = 0]
    /\ acked' = [acked EXCEPT ![k] = FALSE]
    /\ rpos' = [rpos EXCEPT ![k] = 0]
    /\ UNCHANGED << cseq, relay_x_pub, got, verdicts, after_ack, clockVars, auditVars, apiVars, relayVars,
                    secVars >>

\* two clients and the relay
NextE2E ==
    \/ \E k \in AgentIds :
        \/ ClientConnect(k)
        \/ ClientSendMessage(k)
        \/ ClientRecv(k)
        \/ AppVerify(k)
        \/ ClientDisconnect(k)
    \/ \E c \in Conns :
        \/ SendAck(c)
        \/ RemovePending(c)
        \/ RoutePush(c)
        \/ FlushRoute(c)
        \/ FlushPush(c)
        \/ Disconnect(c)

SpecE2E == Init /\ [][NextE2E]_vars

\* ---------------------------------------------------------------- clients: properties
\* C4: a frame that A sent with send_message when A and its recipient B had
\* both received their Ack is, when B receives it, a Msg frame from A to B
\* with the payload sent, and B's verify_auth_frame with A's keys returns Ok.
C4_RoundTrip ==
    \A k \in AgentIds : \A i \in 1..Len(verdicts[k]) :
        LET v == verdicts[k][i]
        IN  v.frame.nonce \in after_ack =>
                /\ v.frame.frame_type = "Msg"
                /\ v.frame.from \in AgentIds
                /\ v.frame.to = k
                /\ v.frame.payload = MsgPayload
                /\ v.res = "Ok"

\* the i-th frame of connection c1 was sent before the j-th of c2: a client
\* has one transport at a time, and connections are numbered in the order of
\* their first datagram
SentBefore(c1, i, c2, j) == c1 < c2 \/ (c1 = c2 /\ i < j)

\* C19: the seq values of the frames one client sends (Connect, Msg), in the
\* order it sends them, are strictly increasing, also from one connection of
\* the client to its next.
C19_SeqIncreasing ==
    \A c1, c2 \in Conns : \A i \in 1..Len(rcvd[c1]) : \A j \in 1..Len(rcvd[c2]) :
        (/\ rcvd[c1][i].from = rcvd[c2][j].from
         /\ SentBefore(c1, i, c2, j))
            => rcvd[c1][i].seq < rcvd[c2][j].seq

\* C20: a client that has received the relay's Ack of its Connect frame holds
\* the relay's X25519 key, taken from the relayXPub field of the Ack.
C20_AckCarriesRelayKey ==
    \A k \in AgentIds : acked[k] => relay_x_pub[k] # NoneOpt

\* ---------------------------------------------------------------- authenticated frames
\* what may happen to a frame between create_auth_frame and verify_auth_frame
Tampers ==
    {"none", "payload", "nonce_rand", "nonce_ts", "seq", "ts", "sig", "sig_forged",
     "hmac", "no_hmac", "no_sig"}

\* changes of two fields, which fail two checks of verify_auth_frame
TwoTampers == {"no_hmac_no_sig", "hmac_no_sig", "sig_payload"}

OtherAgent(id) == CHOOSE k \in AgentIds : k # id

\* frame f with the field named by t changed
Tamper(f, t) ==
    CASE t = "none" -> f
      [] t = "payload" -> [f EXCEPT !.payload = RawBytes(3)]
      [] t = "nonce_rand" -> [f EXCEPT !.nonce = << f.nonce[1], HexPart(f.nonce[2].v + 100) >>]
      [] t = "nonce_ts" -> [f EXCEPT !.nonce = << NumPart(f.nonce[1].v + 1), f.nonce[2] >>]
      [] t = "seq" -> [f EXCEPT !.seq = f.seq + 1]
      [] t = "ts" -> [f EXCEPT !.ts = f.ts + 1]
      [] t = "sig" -> [f EXCEPT !.sig = << [signer |-> f.sig[1].signer, message |-> << >>] >>]
      [] t = "sig_forged" ->
            [f EXCEPT !.sig = << sign(EdPrivOf(OtherAgent(f.from)), f.sig[1].message) >>]
      [] t = "hmac" ->
            [f EXCEPT !.hmac = << generate_hmac(derive_session_key(<< 0, 0 >>, SessionLabel),
                                               HmacData(f)) >>]
      [] t = "no_hmac" -> [f EXCEPT !.hmac = NoneOpt]
      [] t = "no_sig" -> [f EXCEPT !.sig = NoneOpt]
      [] t = "no_hmac_no_sig" -> [f EXCEPT !.hmac = NoneOpt, !.sig = NoneOpt]
      [] t = "hmac_no_sig" ->
            [f EXCEPT !.hmac = << generate_hmac(derive_session_key(<< 0, 0 >>, SessionLabel),
                                               HmacData(f)) >>,
                      !.sig = NoneOpt]
      [] t = "sig_payload" ->
            [f EXCEPT !.sig = << [signer |-> f.sig[1].signer, message |-> << >>] >>,
                      !.payload = RawBytes(3)]

RECURSIVE Sum(_, _)
Sum(f, S) ==
    IF S = {} THEN 0
    ELSE LET k == CHOOSE k \in S : TRUE IN f[k] + Sum(f, S \ {k})

\* S builds a Msg frame for the other agent with create_auth_frame, keyed with
\* the other agent's x_pub or with the all-zero key; the frames built before
\* and the verdicts on them are set aside
AuthCreate(S) ==
    /\ Sum(last_nonce, AgentIds) < MaxFrames
    /\ nops' = nops
    /\ last_nonce' = [last_nonce EXCEPT ![S] = @ + 1]
    /\ \E peer_x_pub \in {Identity(OtherAgent(S)).x_pub, ZeroKey} :
         made' =
            {[frame |-> create_auth_frame(Identity(S), peer_x_pub, "Msg", OtherAgent(S),
                                          MsgPayload, last_nonce[S] + 1, now,
                                          last_nonce[S] + 1),
              peer_x_pub |-> peer_x_pub]}
    /\ got' = [k \in AgentIds |-> << >>]
    /\ verdicts' = [k \in AgentIds |-> << >>]
    /\ UNCHANGED << conn, cseq, relay_x_pub, acked, rpos, after_ack, clockVars, relayVars,
                    nonce_window, accepts, ncalls, last_call, pureVars, has_identity, transport,
                    nconn, closed, out >>

\* a frame that was built for R reaches R, as built or changed in one field;
\* the verdicts on R's earlier frames are set aside
AuthDeliver(R) ==
    /\ nops < MaxDeliver
    /\ nops' = nops + 1
    /\ got[R] = << >>
    /\ \E m \in made : \E t \in Tampers :
         /\ m.frame.to = R
         /\ got' = [got EXCEPT ![R] = << Tamper(m.frame, t) >>]
    /\ verdicts' = [verdicts EXCEPT ![R] = << >>]
    /\ UNCHANGED << conn, cseq, relay_x_pub, acked, rpos, after_ack, clockVars,
                    relayVars, secVars, auditVars, has_identity, transport, nconn, closed,
                    out >>

NextAuth ==
    \/ Tick
    \/ \E k \in AgentIds :
        \/ AuthCreate(k)
        \/ AuthDeliver(k)
        \/ AppVerify(k)

SpecAuth == Init /\ [][NextAuth]_vars

\* the latest element of a sequence, as a sequence
Latest(q) == IF q = << >> THEN q ELSE << q[Len(q)] >>

\* a frame that was built for R reaches R, as built or changed in one or two
\* fields, also a second time; of R's verdicts the latest is kept, so that
\* verdicts[R] holds the verdicts of two calls in a row
VerifyDeliver(R) ==
    /\ nops < MaxDeliver
    /\ nops' = nops + 1
    /\ got[R] = << >>
    /\ \E m \in made : \E t \in Tampers \cup TwoTampers :
         /\ m.frame.to = R
         /\ got' = [got EXCEPT ![R] = << Tamper(m.frame, t) >>]
    /\ verdicts' = [verdicts EXCEPT ![R] = Latest(@)]
    /\ UNCHANGED << conn, cseq, relay_x_pub, acked, rpos, after_ack, clockVars,
                    relayVars, secVars, auditVars, has_identity, transport, nconn, closed,
                    out >>

\* frames verified one after the other at one time
NextVerify ==
    \E k \in AgentIds :
        \/ AuthCreate(k)
        \/ VerifyDeliver(k)
        \/ AppVerify(k)

SpecVerify == Init /\ [][NextVerify]_vars

\* ---------------------------------------------------------------- authenticated frames: properties
\* DH agreement: both sides derive the same secret
SharedSecretAgrees ==
    \A S, R \in AgentIds :
        derive_shared_secret(Identity(S).x_priv, Identity(R).x_pub)
            = derive_shared_secret(Identity(R).x_priv, Identity(S).x_pub)

\* C11: a frame built by create_auth_frame(S, R.x_pub, ...) and verified by R
\* with S's keys, within 60000 ms of its creation and while R's manager does
\* not hold its nonce, is accepted (Ok); both sides derive the same secret.
C11_AuthRoundTrip ==
    /\ SharedSecretAgrees
    /\ \A k \in AgentIds : \A i \in 1..Len(verdicts[k]) : \A m \in made :
         LET v == verdicts[k][i]
         IN  (/\ v.frame = m.frame
              /\ m.peer_x_pub = Identity(k).x_pub
              /\ v.at - m.frame.ts <= NonceMaxAge
              /\ ~v.seen) => v.res = "Ok"

C11_Witness ==
    \E k \in AgentIds : \E i \in 1..Len(verdicts[k]) : \E m \in made :
        /\ verdicts[k][i].frame = m.frame
        /\ m.peer_x_pub = Identity(k).x_pub
        /\ verdicts[k][i].at = m.frame.ts + NonceMaxAge
        /\ verdicts[k][i].res = "Ok"

\* verdict v was given within the freshness window of the nonce its frame carries
Fresh(v) == v.at - v.frame.nonce[1].v <= NonceMaxAge

\* v is the verdict of k on the frame of m with the field named by t changed
TamperedVerdict(k, v, m, t) == m.frame.to = k /\ v.frame = Tamper(m.frame, t)

\* the changes the tamper-detection contract names
DetectedTampers == {"payload", "nonce_rand", "nonce_ts", "seq", "ts", "sig", "sig_forged"}

\* C12: a frame built by create_auth_frame whose payload, nonce, seq, ts or
\* sig was changed before verification is never accepted: verify_auth_frame
\* returns an error.
C12_TamperRejected ==
    \A k \in AgentIds : \A i \in 1..Len(verdicts[k]) : \A m \in made :
        \A t \in DetectedTampers :
            TamperedVerdict(k, verdicts[k][i], m, t) => verdicts[k][i].res # "Ok"

C12_Witness ==
    \E k \in AgentIds : \E i \in 1..Len(verdicts[k]) : \E m \in made :
        /\ TamperedVerdict(k, verdicts[k][i], m, "sig")
        /\ m.peer_x_pub = Identity(k).x_pub
        /\ Fresh(verdicts[k][i])
        /\ ~verdicts[k][i].seen
        /\ verdicts[k][i].res = "Invalid signature"

\* C13: when only the payload of an otherwise valid authenticated frame was
\* changed, verify_auth_frame rejects it with the reason "HMAC mismatch".
C13_PayloadTamper ==
    \A k \in AgentIds : \A i \in 1..Len(verdicts[k]) : \A m \in made :
        LET v == verdicts[k][i]
        IN  (/\ TamperedVerdict(k, v, m, "payload")
             /\ m.peer_x_pub = Identity(k).x_pub
             /\ Fresh(v)
             /\ ~v.seen) => v.res = "HMAC mismatch"

C13_Witness ==
    \E k \in AgentIds : \E i \in 1..Len(verdicts[k]) : \E m \in made :
        /\ TamperedVerdict(k, verdicts[k][i], m, "payload")
        /\ m.peer_x_pub = Identity(k).x_pub
        /\ Fresh(verdicts[k][i])
        /\ ~verdicts[k][i].seen
        /\ verdicts[k][i].res = "HMAC mismatch"

\* C14: a frame that carries another nonce than the one its signature was
\* computed over, the carried nonce being fresh and not held by the manager
\* and the hmac present, is rejected with the reason "Invalid signature".
C14_BadSignature ==
    \A k \in AgentIds : \A i \in 1..Len(verdicts[k]) : \A m \in made :
        \A t \in {"nonce_rand", "nonce_ts"} :
            LET v == verdicts[k][i]
            IN  (/\ TamperedVerdict(k, v, m, t)
                 /\ v.frame.hmac # NoneOpt
                 /\ Fresh(v)
                 /\ ~v.seen) => v.res = "Invalid signature"

C14_Witness ==
    \E k \in AgentIds : \E i \in 1..Len(verdicts[k]) : \E m \in made :
        /\ TamperedVerdict(k, verdicts[k][i], m, "nonce_rand")
        /\ Fresh(verdicts[k][i])
        /\ ~verdicts[k][i].seen
        /\ verdicts[k][i].res = "Invalid signature"

\* the reasons of the checks that follow the nonce check
HmacSigErrors == {"Missing HMAC", "Missing signature", "Invalid signature", "HMAC mismatch"}

Replayed == "Invalid or replayed nonce"

\* C28: a frame that verify_auth_frame rejects for its hmac or sig has its
\* nonce recorded in the manager's window all the same, and the next frame
\* with that nonce, genuine or not, is rejected by that manager with
\* "Invalid or replayed nonce".
C28_RejectedConsumesNonce ==
    \A k \in AgentIds :
        /\ verdicts[k] # << >> =>
              LET v == verdicts[k][Len(verdicts[k])]
              IN  v.res \in HmacSigErrors => v.frame.nonce \in DOMAIN nonce_window[k]
        /\ Len(verdicts[k]) = 2 =>
              ((/\ verdicts[k][1].res \in HmacSigErrors
                /\ verdicts[k][2].frame.nonce = verdicts[k][1].frame.nonce)
                  => (verdicts[k][2].seen /\ verdicts[k][2].res = Replayed))

\* a frame was rejected with "HMAC mismatch", then the genuine frame, keyed for
\* its receiver, was rejected as replayed
C28_Witness ==
    \E k \in AgentIds : \E m \in made :
        /\ Len(verdicts[k]) = 2
        /\ verdicts[k][1].res = "HMAC mismatch"
        /\ verdicts[k][1].frame = Tamper(m.frame, "payload")
        /\ verdicts[k][2].frame = m.frame
        /\ m.peer_x_pub = Identity(k).x_pub
        /\ verdicts[k][2].res = Replayed

\* the reason verify_auth_frame gives for the frame of m changed by t, when k
\* verifies it with a nonce that is fresh and that its manager does not hold
ExpectedReason(k, m, t) ==
    CASE t \in {"no_hmac", "no_hmac_no_sig"} -> "Missing HMAC"
      [] t \in {"no_sig", "hmac_no_sig"} -> "Missing signature"
      [] t \in {"nonce_rand", "nonce_ts", "seq", "ts", "sig", "sig_forged", "hmac",
                "sig_payload"} -> "Invalid signature"
      [] t = "payload" -> "HMAC mismatch"
      [] t = "none" -> IF m.peer_x_pub = Identity(k).x_pub THEN "Ok" ELSE "HMAC mismatch"

\* C30: verify_auth_frame checks the nonce, then that hmac is present, that
\* sig is present, that the signature is valid and that the HMAC is equal, and
\* returns the reason of the first check that fails; the same valid frame
\* verified twice by one manager gives Ok, then "Invalid or replayed nonce".
C30_CheckOrder ==
    \A k \in AgentIds :
        /\ \A i \in 1..Len(verdicts[k]) : \A m \in made : \A t \in Tampers \cup TwoTampers :
              (/\ TamperedVerdict(k, verdicts[k][i], m, t)
               /\ t = "none" \/ Tamper(m.frame, t) # m.frame)
                  => verdicts[k][i].res =
                        IF verdicts[k][i].seen \/ ~Fresh(verdicts[k][i])
                        THEN Replayed
                        ELSE ExpectedReason(k, m, t)
        /\ Len(verdicts[k]) = 2 =>
              ((verdicts[k][1].res = "Ok" /\ verdicts[k][2].frame = verdicts[k][1].frame)
                  => verdicts[k][2].res = Replayed)

\* a valid frame was verified twice by one manager: Ok, then replayed
C30_Witness ==
    \E k \in AgentIds :
        /\ Len(verdicts[k]) = 2
        /\ verdicts[k][1].res = "Ok"
        /\ verdicts[k][2].frame = verdicts[k][1].frame
        /\ verdicts[k][2].res = Replayed

\* ---------------------------------------------------------------- transport
\* mpsc::channel(256)
QueueCapacity == 256

\* QUICTransport::new: no connection, no receiver.  reader is the state of the
\* reader task that feeds rx: "none" before connect, "running", "closing" once
\* its connection was closed locally, "blocked" while it waits in tx.send for
\* room in the queue with the frame held, "exited"
NewTransport == [connection |-> 0, rx |-> NoneOpt, reader |-> "none", held |-> NoneOpt]

\* QUICTransport::connect succeeding with connection c: a new channel and a
\* new reader task; the previous receiver is dropped
Connected(T, c) ==
    [connection |-> c, rx |-> << << >> >>, reader |-> "running", held |-> NoneOpt]

\* QUICTransport::is_connected
is_connected(T) == T.connection # 0

close_unchecked(T) ==
    [T EXCEPT !.connection = 0, !.reader = IF T.reader = "exited" THEN @ ELSE "closing"]

\* QUICTransport::close: take the connection and close it
Closed(T) ==
    IF T.connection # 0
    THEN [T EXCEPT !.connection = 0,
                   !.reader = IF T.reader = "running" THEN "closing" ELSE T.reader]
    ELSE T

\* quic.rs:111-112  close() calls conn.close(0, "bye") on the connection it took
CloseResult(T) == IF T.connection # 0 THEN "bye" ELSE "noop"

\* QUICTransport::send: panics without a connection, fails on a lost one
SendResult(T) ==
    IF T.connection = 0 THEN "panic"
    ELSE IF T.reader \in {"running", "blocked"} THEN "sent" ELSE "err"

\* QUICTransport::recv: None without a receiver or when the channel is closed
\* and empty, the head of the queue otherwise; waits while the queue is empty
\* and the reader task lives
RecvReady(T) ==
    IF T.rx = NoneOpt THEN TRUE ELSE T.rx[1] # << >> \/ T.reader = "exited"

RecvResult(T) == IF T.rx # NoneOpt /\ T.rx[1] # << >> THEN "frame" ELSE "none"

AfterRecv(T) ==
    IF T.rx # NoneOpt /\ T.rx[1] # << >> THEN [T EXCEPT !.rx = << Tail(T.rx[1]) >>] ELSE T

\* the datagrams the peer may send on the connection
PeerDatagrams ==
    {Encode(AckFrame("a")),
     Encode([NoFrame EXCEPT !.version = 1, !.frame_type = "Msg", !.from = "b", !.to = "a"]),
     Garbage}

\* a reader task feeding a queue without a capacity
QueuedUnbounded(T, d) ==
    IF ~Decode(d).ok THEN T
    ELSE [T EXCEPT !.rx = << Append(T.rx[1], Decode(d).frame) >>]

\* quic.rs:68-77  the reader task reads a datagram and queues the frame it
\* decodes to; tx.send waits while the queue is full
Queued(T, d) ==
    IF ~Decode(d).ok THEN T
    ELSE IF Len(T.rx[1]) < QueueCapacity
         THEN [T EXCEPT !.rx = << Append(T.rx[1], Decode(d).frame) >>]
         ELSE [T EXCEPT !.reader = "blocked", !.held = << Decode(d).frame >>]

\* quic.rs:72  tx.send returns once the queue has room: the held frame is
\* queued and the reader task goes back to read_datagram
Resumed(T) ==
    [T EXCEPT !.rx = << Append(T.rx[1], T.held[1]) >>,
              !.held = NoneOpt,
              !.reader = IF T.connection = 0 THEN "closing" ELSE "running"]

\* the client the operations are called on
ApiClient == "a"

QueueLen(tr) == IF tr = NoneOpt THEN 0 ELSE IF tr[1].rx = NoneOpt THEN 0 ELSE Len(tr[1].rx[1])

Called(op, res) ==
    [op |-> op, res |-> res, id |-> has_identity[ApiClient], tr |-> transport # NoneOpt,
     left |-> IF op \in {"close", "disconnect"} THEN QueueLen(transport) ELSE out.left]

\* QUICTransport::new
TransportNew ==
    /\ transport = NoneOpt
    /\ transport' = << NewTransport >>
    /\ out' = Called("new", "ok")
    /\ UNCHANGED << has_identity, nconn, closed, nops, clockVars, relayVars, clientVars,
                    secVars, auditVars >>

\* QUICTransport::connect: the handshake succeeds or fails
TransportConnect ==
    /\ transport # NoneOpt
    /\ nops < MaxOps
    /\ nops' = nops + 1
    /\ \/ /\ transport' = << Connected(transport[1], nconn + 1) >>
          /\ nconn' = nconn + 1
          /\ out' = Called("connect", "ok")
       \/ /\ out' = Called("connect", "err")
          /\ UNCHANGED << transport, nconn >>
    /\ UNCHANGED << has_identity, closed, clockVars, relayVars, clientVars, secVars,
                    auditVars >>

\* QUICTransport::send
TransportSend ==
    /\ transport # NoneOpt
    /\ nops < MaxOps
    /\ nops' = nops + 1
    /\ out' = Called("send", SendResult(transport[1]))
    /\ UNCHANGED << has_identity, transport, nconn, closed, clockVars, relayVars,
                    clientVars, secVars, auditVars >>

\* QUICTransport::recv
TransportRecv ==
    /\ transport # NoneOpt
    /\ nops < MaxOps
    /\ nops' = nops + 1
    /\ RecvReady(transport[1])
    /\ out' = Called("recv", RecvResult(transport[1]))
    /\ transport' = << AfterRecv(transport[1]) >>
    /\ UNCHANGED << has_identity, nconn, closed, clockVars, relayVars, clientVars, secVars,
                    auditVars >>

\* QUICTransport::close
TransportClose ==
    /\ transport # NoneOpt
    /\ nops < MaxOps
    /\ nops' = nops + 1
    /\ out' = Called("close", CloseResult(transport[1]))
    /\ closed' = (closed \/ is_connected(transport[1]))
    /\ transport' = << Closed(transport[1]) >>
    /\ UNCHANGED << has_identity, nconn, clockVars, relayVars, clientVars, secVars,
                    auditVars >>

\* the reader task takes a datagram that arrived on its connection
ReaderStep ==
    /\ transport # NoneOpt
    /\ transport[1].reader \in {"running", "closing"}
    /\ nops < MaxOps
    /\ nops' = nops + 1
    /\ \E d \in PeerDatagrams : transport' = << Queued(transport[1], d) >>
    /\ UNCHANGED << has_identity, nconn, closed, out, clockVars, relayVars, clientVars,
                    secVars, auditVars >>

\* quic.rs:79-82  read_datagram fails (the connection was closed or lost): the
\* reader task exits and drops its sender
ReaderExit ==
    /\ transport # NoneOpt
    /\ transport[1].reader \in {"running", "closing"}
    /\ transport' = << [transport[1] EXCEPT !.reader = "exited"] >>
    /\ UNCHANGED << has_identity, nconn, closed, out, nops, clockVars, relayVars, clientVars,
                    secVars, auditVars >>

NextTransport ==
    \/ TransportNew
    \/ TransportConnect
    \/ TransportSend
    \/ TransportRecv
    \/ TransportClose
    \/ ReaderStep
    \/ ReaderExit

SpecTransport == Init /\ [][NextTransport]_vars

\* ---------------------------------------------------------------- transport: full queue
\* the room left in the inbound queue of the transport the run starts from
QueueRoom == 1

\* n times frame f
Fill(f, n) == [i \in 1..n |-> f]

\* the reader task resumes from tx.send
ReaderResume ==
    /\ transport # NoneOpt
    /\ transport[1].reader = "blocked"
    /\ Len(transport[1].rx[1]) < QueueCapacity
    /\ transport' = << Resumed(transport[1]) >>
    /\ UNCHANGED << has_identity, nconn, closed, out, nops, clockVars, relayVars, clientVars,
                    secVars, auditVars >>

\* after new() and connect(), when the reader task has queued all but
\* QueueRoom of the frames the queue can hold and the application took none
InitQueue ==
    StartWith(TRUE,
              << [Connected(NewTransport, 1) EXCEPT
                    !.rx = << Fill(Decode(Encode(AckFrame("a"))).frame,
                                   QueueCapacity - QueueRoom) >>] >>,
              1)

NextQueue ==
    \/ TransportConnect
    \/ TransportSend
    \/ TransportRecv
    \/ TransportClose
    \/ ReaderStep
    \/ ReaderResume
    \/ ReaderExit

SpecQueue == InitQueue /\ [][NextQueue]_vars

\* C21: the reader task never waits for the consumer: on a full queue it
\* drops the frame it just decoded, leaves the queue as it is and goes on
\* reading, so it is never inside tx.send with a frame held.
C21_DropNewest ==
    transport # NoneOpt =>
        /\ transport[1].reader # "blocked"
        /\ transport[1].held = NoneOpt

\* C22: close() is idempotent: on a transport without a connection it changes
\* nothing, one more close() after any close() would change nothing, and
\* conn.close(0, "bye") is called only on a connection that was open, which
\* close() takes, so at most once for each connection.
C22_CloseIdempotent ==
    [][TransportClose =>
          /\ Closed(transport'[1]) = transport'[1]
          /\ ~is_connected(transport'[1])
          /\ ~is_connected(transport[1]) => (transport' = transport /\ out'.res = "noop")
          /\ out'.res = "bye" <=> is_connected(transport[1])]_vars

\* close() was called on a transport that close() had closed before
C22_Witness ==
    /\ closed
    /\ out.op = "close"
    /\ out.res = "noop"
    /\ ~is_connected(transport[1])

\* C35: the inbound queue never holds more than 256 frames and is first in,
\* first out: the reader task adds the frame it decoded at the tail, recv()
\* takes the frame at the head, nothing else changes the queue of a connection;
\* recv() signals end-of-stream only when the reader task has exited and the
\* queue is empty, so the frames queued before the exit are returned first.
C35_BoundedFifo ==
    [][(transport # NoneOpt /\ transport[1].rx # NoneOpt /\ nconn' = nconn) =>
          LET q == transport[1].rx[1]
              r == transport'[1].rx[1]
          IN  /\ Len(r) <= QueueCapacity
              /\ IF TransportRecv
                 THEN IF q # << >>
                      THEN out'.res = "frame" /\ r = Tail(q)
                      ELSE out'.res = "none" /\ r = q /\ transport[1].reader = "exited"
                 ELSE \/ r = q
                      \/ /\ transport[1].reader \in {"running", "closing", "blocked"}
                         /\ Len(r) = Len(q) + 1
                         /\ SubSeq(r, 1, Len(q)) = q]_vars

\* the queue was full when the reader task exited, and recv() returned a frame
\* after the exit
C35_Witness ==
    /\ transport # NoneOpt
    /\ transport[1].reader = "exited"
    /\ out.op = "recv"
    /\ out.res = "frame"
    /\ Len(transport[1].rx[1]) = QueueCapacity - 1

\* ---------------------------------------------------------------- codec
MaxU8 == 255

\* well-formed frames: every frame type, with and without hmac and sig, the
\* values of the test and the extreme values of version, binary and JSON payloads
CodecFrames ==
    LET auth == create_auth_frame(Identity("a"), Identity("b").x_pub, "Msg", "b",
                                  MsgPayload, 1, 0, 1)
    IN  [version : {1, MaxU8},
         frame_type : FrameTypes,
         from : {"a"},
         to : {"b", RelayId},
         seq : {0, 42},
         ts : {1234567890},
         nonce : {auth.nonce},
         payload : {EmptyPayload, ConnectPayload(Identity("a").ed_pub, Identity("a").x_pub)},
         hmac : {NoneOpt, auth.hmac},
         sig : {NoneOpt, auth.sig}]

\* CBORCodec::encode(f)
CodecEncode ==
    /\ \E f \in CodecFrames : wire' = << [frame |-> f, bytes |-> Encode(f)] >>
    /\ decoded' = NoneOpt
    /\ UNCHANGED << ids, session, reply, made, last_call, clockVars, relayVars, clientVars,
                    secVars, apiVars >>

\* CBORCodec::decode of the bytes encode returned
CodecDecode ==
    /\ wire # NoneOpt
    /\ decoded = NoneOpt
    /\ decoded' = << Decode(wire[1].bytes) >>
    /\ UNCHANGED << wire, ids, session, reply, made, last_call, clockVars, relayVars, clientVars, secVars,
                    apiVars >>

NextCodec == CodecEncode \/ CodecDecode

SpecCodec == Init /\ [][NextCodec]_vars

MaxIds == 2

\* private keys and chain ids the identities are made from
KeyValues == {1, 2, 3}

ChainIds == {16600, 16602}

\* KeyManager::generate_identity
GenerateIdentity ==
    /\ Len(ids) < MaxIds
    /\ \E chain_id \in ChainIds : \E ed_priv \in KeyValues : \E x_priv \in KeyValues :
         ids' = Append(ids, generate_identity(chain_id, ed_priv, x_priv))
    /\ UNCHANGED << wire, decoded, session, reply, made, last_call, clockVars, relayVars, clientVars,
                    secVars, apiVars >>

\* OpacusClient::init_from_keys
InitFromKeys ==
    /\ Len(ids) < MaxIds
    /\ \E chain_id \in ChainIds : \E ed_priv \in KeyValues : \E x_priv \in KeyValues :
         ids' = Append(ids, init_from_keys(ed_priv, x_priv, chain_id))
    /\ UNCHANGED << wire, decoded, session, reply, made, last_call, clockVars, relayVars, clientVars,
                    secVars, apiVars >>

NextKeys == GenerateIdentity \/ InitFromKeys

SpecKeys == Init /\ [][NextKeys]_vars

\* C24: every identity has address = "0x" + id, and identities with the same
\* signing key have the same id, address and ed_pub, whatever their x_priv and
\* chain_id are.
C24_AddressFromId ==
    /\ \A i \in 1..Len(ids) : ids[i].address = With0x(ids[i].id)
    /\ \A i, j \in 1..Len(ids) :
         (ids[i].ed_priv = ids[j].ed_priv \/ ids[i].ed_pub = ids[j].ed_pub) =>
             /\ ids[i].id = ids[j].id
             /\ ids[i].address = ids[j].address
             /\ ids[i].ed_pub = ids[j].ed_pub

\* two identities of one signing key with different x_priv and chain_id
C24_Witness ==
    \E i, j \in 1..Len(ids) :
        /\ ids[i].ed_priv = ids[j].ed_priv
        /\ ids[i].x_priv # ids[j].x_priv
        /\ ids[i].chain_id # ids[j].chain_id
        /\ ids[i].address = With0x(ids[j].id)

\* ---------------------------------------------------------------- transport: properties
\* C16: once close() has closed the transport, it is never connected again:
\* is_connected() stays false and no later send or recv passes a frame.
C16_ClosedTerminal ==
    closed =>
        /\ ~is_connected(transport[1])
        /\ ~(out.op = "send" /\ out.res = "sent")
        /\ ~(out.op = "recv" /\ out.res = "frame")

\* ---------------------------------------------------------------- client API
\* One OpacusClient, ApiClient, and the operations an application calls on it,
\* in any order.  The network is the reader task of its transport.

\* client.rs:222-227  what disconnect() leaves in the transport field: take()
disconnect_closing_only(tr) == IF tr = NoneOpt THEN tr ELSE << Closed(tr[1]) >>

disconnect(tr) == NoneOpt

\* client.rs:217-219  is_connected()
ClientIsConnected == IF transport = NoneOpt THEN FALSE ELSE is_connected(transport[1])

\* client.rs:34-39, 42-84  init(), init_from_keys(): the client has an identity
CallInit ==
    /\ has_identity' = [has_identity EXCEPT ![ApiClient] = TRUE]
    /\ out' = Called("init", "ok")
    /\ UNCHANGED << transport, nconn, closed, nops, clockVars, relayVars, clientVars,
                    secVars, auditVars >>

\* client.rs:87-130  connect(): panics without an identity; a new transport is
\* connected, the Connect frame takes self.seq and is sent, and the transport is
\* stored; an error of new(), connect() or send() leaves the stored one
CallConnect ==
    /\ nops < MaxOps
    /\ nops' = nops + 1
    /\ IF ~has_identity[ApiClient]
       THEN /\ out' = Called("connect", "panic")
            /\ UNCHANGED << transport, nconn, closed, cseq >>
       ELSE \/ /\ out' = Called("connect", "err")
               /\ UNCHANGED << transport, nconn, closed, cseq >>
            \/ /\ cseq' = [cseq EXCEPT ![ApiClient] = @ + 1]
               /\ nconn' = nconn + 1
               /\ \/ /\ SendResult(Connected(NewTransport, nconn + 1)) = "sent"
                     /\ transport' = << Connected(NewTransport, nconn + 1) >>
                     /\ closed' = FALSE
                     /\ out' = Called("connect", "ok")
                  \/ /\ out' = Called("connect", "err")
                     /\ UNCHANGED << transport, closed >>
    /\ UNCHANGED << has_identity, conn, relay_x_pub, acked, rpos, got, verdicts, after_ack,
                    clockVars, relayVars, secVars, auditVars >>

\* client.rs:137-154  send_message(): panics without an identity or a
\* transport; create_auth_frame() takes the next seq, then transport.send()
CallSendMessage ==
    /\ nops < MaxOps
    /\ nops' = nops + 1
    /\ IF ~has_identity[ApiClient] \/ transport = NoneOpt
       THEN /\ out' = Called("send_message", "panic")
            /\ UNCHANGED last_nonce
       ELSE /\ last_nonce' = [last_nonce EXCEPT ![ApiClient] = @ + 1]
            /\ out' = Called("send_message", SendResult(transport[1]))
    /\ UNCHANGED << has_identity, transport, nconn, closed, clockVars, relayVars, clientVars,
                    nonce_window, accepts, ncalls, auditVars >>

\* client.rs:157-179  send_stream(): as send_message(), with a Stream frame to
\* "broadcast"
CallSendStream ==
    /\ nops < MaxOps
    /\ nops' = nops + 1
    /\ IF ~has_identity[ApiClient] \/ transport = NoneOpt
       THEN /\ out' = Called("send_stream", "panic")
            /\ UNCHANGED last_nonce
       ELSE /\ last_nonce' = [last_nonce EXCEPT ![ApiClient] = @ + 1]
            /\ out' = Called("send_stream", SendResult(transport[1]))
    /\ UNCHANGED << has_identity, transport, nconn, closed, clockVars, relayVars, clientVars,
                    nonce_window, accepts, ncalls, auditVars >>

\* client.rs:182-200  recv(): None without a transport; the transport's recv()
\* otherwise, and an Ack may carry the relay's key
CallRecv ==
    /\ nops < MaxOps
    /\ nops' = nops + 1
    /\ IF transport = NoneOpt
       THEN /\ out' = Called("recv", "none")
            /\ UNCHANGED << transport, relay_x_pub >>
       ELSE /\ RecvReady(transport[1])
            /\ out' = Called("recv", RecvResult(transport[1]))
            /\ transport' = << AfterRecv(transport[1]) >>
            /\ relay_x_pub' =
                 IF RecvResult(transport[1]) = "frame" /\ has_identity[ApiClient]
                 THEN [relay_x_pub EXCEPT ![ApiClient] =
                          StoredKey(@, Identity(ApiClient).id, transport[1].rx[1][1])]
                 ELSE relay_x_pub
    /\ UNCHANGED << has_identity, nconn, closed, conn, cseq, acked, rpos, got, verdicts,
                    after_ack, clockVars, relayVars, secVars, auditVars >>

\* client.rs:222-227  disconnect(): takes the transport and closes it; nothing
\* without a transport
CallDisconnect ==
    /\ nops < MaxOps
    /\ nops' = nops + 1
    /\ out' = Called("disconnect", "ok")
    /\ closed' = TRUE
    /\ transport' = IF transport = NoneOpt THEN transport ELSE disconnect(transport)
    /\ UNCHANGED << has_identity, nconn, clockVars, relayVars, clientVars, secVars,
                    auditVars >>

NextClient ==
    \/ CallInit
    \/ CallConnect
    \/ CallSendMessage
    \/ CallSendStream
    \/ CallRecv
    \/ CallDisconnect
    \/ ReaderStep
    \/ ReaderExit

\* OpacusClient::new: no identity, no transport
InitClient == Start(FALSE)

SpecClient == InitClient /\ [][NextClient]_vars

\* ---------------------------------------------------------------- client API: properties
\* C17: after disconnect(), and until the client connects again, every recv()
\* returns None and is_connected() is false, whatever frames were waiting in
\* the inbound queue when disconnect() was called.
C17_RecvAfterDisconnect ==
    closed =>
        /\ ~ClientIsConnected
        /\ out.op = "recv" => out.res = "none"

\* frames were waiting at disconnect(), and a later recv() returned None
C17_Witness ==
    /\ closed
    /\ out.op = "recv"
    /\ out.res = "none"
    /\ out.left > 0
    /\ ~ClientIsConnected

\* the operations other than init
ClientOps == {"connect", "send_message", "send_stream", "recv", "disconnect"}

\* C18: an operation other than init that is called on a client without an
\* identity, or other than init and connect on a client without a transport,
\* fails loudly: it panics or returns an error.
C18_FailLoudly ==
    (/\ out.op \in ClientOps
     /\ ~out.id \/ (out.op # "connect" /\ ~out.tr))
        => out.res \in {"panic", "err"}

\* ---------------------------------------------------------------- relay: properties
RECURSIVE IsSubseq(_, _)
\* the elements of q occur in l, in the order of q
IsSubseq(q, l) ==
    IF q = << >> THEN TRUE
    ELSE IF l = << >> THEN FALSE
    ELSE IF Head(q) = Head(l) THEN IsSubseq(Tail(q), Tail(l))
    ELSE IsSubseq(q, Tail(l))

IsPrefix(q, l) == Len(q) <= Len(l) /\ SubSeq(l, 1, Len(q)) = q

NotAck(e) == e.via # "ack"

\* the frames connection c was sent by route_frame, as its peer decodes them
FramesOn(c) ==
    LET routed == SelectSeq(sent[c], NotAck)
    IN  [i \in 1..Len(routed) |-> Decode(routed[i].dg).frame]

\* position in sent[c] of the routed frame with nonce n, 0 when there is none
Pos(c, n) ==
    LET S == {i \in 1..Len(sent[c]) :
                sent[c][i].via # "ack" /\ Decode(sent[c][i].dg).frame.nonce = n}
    IN  IF S = {} THEN 0 ELSE CHOOSE i \in S : \A j \in S : i <= j

\* the handler of c is running and is not inside the processing of a Connect
Settled(c) == pc[c] \in {"read", "rpush"}

\* c is the connection of agent R: it registered R, nobody registered R after it,
\* it is still open and its Connect has been processed
ConnectionOf(c, R) == Settled(c) /\ agent_id[c] = R /\ last_reg[R] = c

\* C1: frames queued for an absent recipient R are sent to R's connection, all
\* of them and in the order in which they were queued, once R has connected.
C1_OfflineOrder ==
    \A c \in Conns : \A R \in AgentIds :
        ConnectionOf(c, R) => IsSubseq(flushed[c], FramesOn(c))

SameRoutedFields(f, g) ==
    /\ f.payload = g.payload
    /\ f.hmac = g.hmac
    /\ f.sig = g.sig
    /\ f.nonce = g.nonce
    /\ f.from = g.from
    /\ f.ts = g.ts
    /\ f.seq = g.seq

\* C2: relay opacity: every frame transmitted by route_frame, directly or from
\* the flush of the offline queue, carries the payload, hmac, sig, nonce, from,
\* ts and seq of a frame the relay received.
C2_RelayOpacity ==
    \A c \in Conns : \A i \in 1..Len(sent[c]) :
        sent[c][i].via # "ack" =>
            \E s \in Conns : \E j \in 1..Len(rcvd[s]) :
                SameRoutedFields(Decode(sent[c][i].dg).frame, rcvd[s][j])

\* some connection was sent one frame directly and one from the offline queue
C2_Witness ==
    \E c \in Conns : \E i, j \in 1..Len(sent[c]) :
        sent[c][i].via = "route" /\ sent[c][j].via = "flush"

\* C5: when the first datagram of a connection is the Connect of
\* OpacusClient::connect for identity I, the first frame the relay sends on
\* that connection is the Ack from "relay" to I with seq 0.
C5_AckFirst ==
    \A c \in Conns :
        (/\ rcvd[c] # << >>
         /\ rcvd[c][1].frame_type = "Connect"
         /\ rcvd[c][1].payload.json
         /\ sent[c] # << >>)
        => LET f == Decode(sent[c][1].dg).frame
           IN  /\ f.frame_type = "Ack"
               /\ f.from = RelayId
               /\ f.to = rcvd[c][1].from
               /\ f.seq = 0

\* C6: two frames with the same recipient received in the order g1, g2 on one
\* source connection are never sent to a connection in the order g2, g1.
C6_ReceiveOrder ==
    \A s \in Conns : \A i, j \in 1..Len(rcvd[s]) :
        (/\ i < j
         /\ rcvd[s][i].frame_type # "Connect"
         /\ rcvd[s][j].frame_type # "Connect"
         /\ rcvd[s][i].to = rcvd[s][j].to)
        => \A c \in Conns :
             ~(/\ Pos(c, rcvd[s][i].nonce) # 0
               /\ Pos(c, rcvd[s][j].nonce) # 0
               /\ Pos(c, rcvd[s][j].nonce) < Pos(c, rcvd[s][i].nonce))

\* C7: when every frame addressed to R was received before the Connect of R's
\* connection, the offline queue has no entry for R once that Connect has been
\* processed, and get_pending_count is 0 when nothing else is queued.
C7_OfflineDrain ==
    \A c \in Conns : \A R \in AgentIds :
        (ConnectionOf(c, R) /\ ~late[R])
        => /\ R \notin DOMAIN pending
           /\ (DOMAIN pending \subseteq {R}) => get_pending_count = 0

\* C8: no record of the agent table holds the connection of a handler that has
\* terminated.
C8_NoStaleRecord ==
    \A id \in DOMAIN agents : pc[agents[id].connection] # "done"

Terminates(c) == pc[c] = "read" /\ pc'[c] = "done"

\* C9: the termination of the handler of c leaves in place every record that a
\* different connection, still open, inserted.
C9_IsolatedTermination ==
    [][\A c \in Conns : Terminates(c) =>
          \A id \in DOMAIN agents :
              (agents[id].connection # c /\ pc[agents[id].connection] # "done")
              => (id \in DOMAIN agents' /\ agents'[id] = agents[id])]_vars

\* the step is the pending.remove of a handler processing the Connect of id
RemovedByConnect(id) ==
    \E c \in Conns : pc[c] = "remove" /\ agent_id[c] = id /\ pc'[c] = "flush"

\* C10: the termination of a handler leaves the offline queue unchanged, and a
\* queue only grows at its tail until the Connect of its recipient removes it.
C10_QueueSurvivesClose ==
    [][/\ \A c \in Conns : Terminates(c) => pending' = pending
       /\ \A id \in DOMAIN pending :
             \/ RemovedByConnect(id)
             \/ id \in DOMAIN pending' /\ IsPrefix(pending[id], pending'[id])]_vars

\* a handler has terminated while frames addressed to its agent are queued
C10_Witness ==
    \E c \in Conns : pc[c] = "done" /\ agent_id[c] \in DOMAIN pending

\* no handler is in the middle of processing a frame
Idle == \A c \in Conns : pc[c] \in {"read", "done"}

\* C25: whenever no handler is in the middle of processing a frame, the
\* offline queue holds no frame for an agent id that has a record in the
\* agent table.
C25_NoQueueForPresent ==
    Idle => \A id \in DOMAIN pending : id \notin DOMAIN agents

\* the handler of c has just decoded a frame that is not a Connect
Received(c) ==
    /\ Len(rcvd'[c]) = Len(rcvd[c]) + 1
    /\ rcvd'[c][Len(rcvd'[c])].frame_type # "Connect"

\* the handler of c completes the push of route_frame for the frame it read
Pushed(c) == pc[c] = "rpush" /\ pc'[c] # "rpush"

\* queue q with frame f at the tail of the entry of f.to, created if missing
WithAtTail(q, f) ==
    [id \in DOMAIN q \cup {f.to} |->
        IF id = f.to
        THEN (IF id \in DOMAIN q THEN q[id] ELSE << >>) \o << f >>
        ELSE q[id]]

\* C26: for each frame other than a Connect that the relay decodes, either
\* frame.to has a record and the frame is passed to send_datagram on that
\* record's connection (which delivers it unless the connection is lost), the
\* offline queue unchanged, or frame.to has none, nothing is transmitted and
\* the frame is appended at the tail of the queue of frame.to, the entry being
\* created if missing.
C26_RoutingRule ==
    [][\A c \in Conns :
         /\ Received(c) =>
              LET f == rcvd'[c][Len(rcvd'[c])]
              IN  /\ pending' = pending
                  /\ IF f.to \in DOMAIN agents
                     THEN /\ pc'[c] = "read"
                          /\ \A d \in Conns :
                               sent'[d] =
                                 IF d = agents[f.to].connection /\ pc[d] # "done"
                                 THEN Append(sent[d], [dg |-> Encode(f), via |-> "route"])
                                 ELSE sent[d]
                     ELSE /\ sent' = sent
                          /\ pc'[c] = "rpush"
                          /\ cur'[c] = f
         /\ Pushed(c) =>
              /\ cur[c] = rcvd[c][Len(rcvd[c])]
              /\ sent' = sent
              /\ pending' = WithAtTail(pending, cur[c])]_vars

\* one frame was transmitted to its recipient, another was queued for an
\* agent without a record
C26_Witness ==
    /\ Idle
    /\ \E c \in Conns : \E i \in 1..Len(sent[c]) : sent[c][i].via = "route"
    /\ \E id \in DOMAIN pending : id \notin DOMAIN agents /\ pending[id] # << >>

\* the from field of the first Connect frame received on c
FirstConnectFrom(c) ==
    LET S == {i \in 1..Len(rcvd[c]) : rcvd[c][i].frame_type = "Connect"}
    IN  rcvd[c][CHOOSE i \in S : \A j \in S : i <= j].from

\* C27: a connection registers once: its agent_id is the sender of the first
\* Connect frame it received, and a later Connect frame on it changes neither
\* agent_id nor the agent table.
C27_ConnectOnce ==
    \A c \in Conns : agent_id[c] # None => agent_id[c] = FirstConnectFrom(c)

\* the places of the frame with nonce n: where it was transmitted, where it
\* is queued, which handler holds it between two map accesses
SentAt(n) ==
    UNION { {<< c, i >> : i \in {j \in 1..Len(sent[c]) :
                                    /\ sent[c][j].via # "ack"
                                    /\ Decode(sent[c][j].dg).frame.nonce = n}} :
            c \in Conns }

QueuedAt(n) ==
    UNION { {<< id, i >> : i \in {j \in 1..Len(pending[id]) : pending[id][j].nonce = n}} :
            id \in DOMAIN pending }

HeldAt(n) ==
    UNION { {<< c, i >> : i \in {j \in 1..Len(msgs[c]) : msgs[c][j].nonce = n}}
              \cup (IF cur[c].nonce = n THEN {<< c, 0 >>} ELSE {}) :
            c \in Conns }

Accounted(n) == Cardinality(SentAt(n)) + Cardinality(QueuedAt(n)) + Cardinality(HeldAt(n))

\* the nonces of the frames other than Connect that the relay has decoded
RoutedNonces ==
    UNION { {rcvd[c][i].nonce :
                i \in {j \in 1..Len(rcvd[c]) : rcvd[c][j].frame_type # "Connect"}} :
            c \in Conns }

\* in this step a handler passes the frame with nonce n to send_datagram on a
\* connection that is lost
SendFails(n) ==
    \E c \in Conns :
        LET f == IF pc[c] = "flush" THEN Head(msgs[c]) ELSE rcvd'[c][Len(rcvd'[c])]
        IN  /\ pc[c] = "flush" \/ Received(c)
            /\ f.nonce = n
            /\ f.to \in DOMAIN agents
            /\ pc[agents[f.to].connection] = "done"

\* C29: every frame other than a Connect that the relay decoded is, at every
\* moment, in one place only: transmitted once, on one connection, or once in
\* the offline queue, under frame.to, or in the hands of the handler that is
\* routing it; it leaves these places only when send_datagram fails.  The
\* relay duplicates no frame, also when a flushed frame is queued again.
C29_FrameConservation ==
    [][/\ \A id \in DOMAIN pending' : \A i \in 1..Len(pending'[id]) :
             pending'[id][i].to = id
       /\ \A n \in RoutedNonces' :
             LET places == Accounted(n)'
             IN  \/ places = 1
                 \/ /\ places = 0
                    /\ SendFails(n) \/ (n \in RoutedNonces /\ Accounted(n) = 0)]_vars

\* a frame that a flush had taken from the queue is in the queue again
C29_Witness ==
    \E c \in Conns : \E id \in DOMAIN pending :
        \E i \in 1..Len(flushed[c]) : \E j \in 1..Len(pending[id]) :
            /\ pc[c] = "read"
            /\ pending[id][j] = flushed[c][i]
            /\ Accounted(flushed[c][i].nonce) = 1

\* the handler of c has just decoded a Connect frame while its agent_id was unset
FirstConnect(c) ==
    /\ agent_id[c] = None
    /\ Len(rcvd'[c]) = Len(rcvd[c]) + 1
    /\ rcvd'[c][Len(rcvd'[c])].frame_type = "Connect"

\* C31: a Connect frame arriving on a connection without agent_id is always
\* registered, whatever its payload: the record of frame.from is inserted or
\* replaced with this connection, keys that do not decode being recorded as
\* zero, and the handler goes on to send the Ack and flush the queue.
C31_AlwaysRegistered ==
    [][\A c \in Conns :
         FirstConnect(c) =>
           LET f == rcvd'[c][Len(rcvd'[c])]
           IN  /\ agent_id'[c] = f.from
               /\ f.from \in DOMAIN agents'
               /\ agents'[f.from].connection = c
               /\ agents'[f.from].ed_pub = DecodeKey32(f.payload.edPub)
               /\ agents'[f.from].x_pub = DecodeKey32(f.payload.xPub)
               /\ pc'[c] = "ack"]_vars

\* ---------------------------------------------------------------- H3DAC SDK client
\* expires_at values the gateway may answer with
SessionExpiries == {0, 1, 2, NonceMaxAge}

\* H3DACClient::is_authenticated at time t
is_authenticated(s, t) == s # NoneOpt /\ t < s[1].expires_at

\* H3DACClient::send_payload at time t; gateway: what encryption, signing and
\* the HTTP exchange give once the session checks have passed
send_payload(s, t, gateway) ==
    IF s = NoneOpt THEN "NotAuthenticated"
    ELSE IF t > s[1].expires_at THEN "SessionExpired"
    ELSE gateway

\* authenticate(): the gateway answers with expires_at, or a step fails
Authenticate ==
    /\ \/ \E e \in SessionExpiries :
            /\ session' = << [expires_at |-> e] >>
            /\ reply' = [op |-> "authenticate", res |-> "Ok",
                         auth |-> is_authenticated(session', now)]
       \/ /\ session' = session
          /\ reply' = [op |-> "authenticate", res |-> "HttpError",
                       auth |-> is_authenticated(session, now)]
    /\ UNCHANGED << wire, decoded, ids, made, last_call, clockVars, relayVars, clientVars,
                    secVars, apiVars >>

SendPayload ==
    /\ \E gateway \in {"Ok", "HttpError"} :
         reply' = [op |-> "send_payload", res |-> send_payload(session, now, gateway),
                   auth |-> is_authenticated(session, now)]
    /\ UNCHANGED << session, wire, decoded, ids, made, last_call, clockVars, relayVars,
                    clientVars, secVars, apiVars >>

ClearSession ==
    /\ session' = NoneOpt
    /\ reply' = [op |-> "clear_session", res |-> "Ok", auth |-> is_authenticated(session', now)]
    /\ UNCHANGED << wire, decoded, ids, made, last_call, clockVars, relayVars, clientVars,
                    secVars, apiVars >>

NextSession == Tick \/ Authenticate \/ SendPayload \/ ClearSession

SpecSession == Init /\ [][NextSession]_vars

\* C40: without a session send_payload returns NotAuthenticated; with a session
\* it returns SessionExpired exactly when is_authenticated() is false at that
\* time, the time now = expires_at included; after clear_session()
\* is_authenticated() is false.
C40_ExpiryConsistent ==
    /\ reply.op = "send_payload" =>
         IF session = NoneOpt
         THEN reply.res = "NotAuthenticated"
         ELSE reply.res = "SessionExpired" <=> ~reply.auth
    /\ reply.op = "clear_session" => ~reply.auth /\ session = NoneOpt

\* the handler of c has just decoded a Connect frame for an agent id whose
\* record belongs to another connection
TakeOver(c) ==
    /\ Len(rcvd'[c]) = Len(rcvd[c]) + 1
    /\ rcvd'[c][Len(rcvd'[c])].frame_type = "Connect"
    /\ rcvd'[c][Len(rcvd'[c])].from \in DOMAIN agents
    /\ agents[rcvd'[c][Len(rcvd'[c])].from].connection # c

\* C32: a Connect frame is registered under frame.from with no check against
\* the key in its payload or against the record in the table: when another
\* connection sends a Connect with an agent id that has a record, the record is
\* replaced by one with that connection, which goes on to the Ack and the
\* flush, and a frame routed to an agent id is transmitted on no connection
\* but the one of its record.
C32_TakeOver ==
    [][\A c \in Conns :
         /\ TakeOver(c) =>
              LET f == rcvd'[c][Len(rcvd'[c])]
              IN  /\ f.from \in DOMAIN agents'
                  /\ agents'[f.from].connection = c
                  /\ pc'[c] = "ack"
         /\ (Len(sent'[c]) = Len(sent[c]) + 1 /\ sent'[c][Len(sent'[c])].via # "ack") =>
              LET f == Decode(sent'[c][Len(sent'[c])].dg).frame
              IN  f.to \in DOMAIN agents /\ agents[f.to].connection = c]_vars

\* ---------------------------------------------------------------- Ack frames from peers
\* a JSON payload whose relayXPub field is field
KeyPayload(field) ==
    [json |-> TRUE, edPub |-> NoStr, xPub |-> NoStr, relayXPub |-> field, data |-> 0]

\* the hex of the first 16 bytes of key k
ShortHex(k) == [str |-> TRUE, hex |-> TRUE, len |-> 16, v |-> k]

\* the frames agent k may write on its connection instead of calling
\* send_message: Ack frames for the other agent under its own id, with a key
\* of 32 bytes, a key of 16 bytes or bytes that are not JSON as payload; an Ack
\* frame under the recipient's id and a Msg frame, each with a key of 32 bytes
PeerFrames(k) ==
    LET to == OtherAgent(k)
        pls == {KeyPayload(ToHex(Identity(k).x_pub)), KeyPayload(ToHex(Identity(k).ed_pub)),
                KeyPayload(ShortHex(Identity(k).x_pub)), RawBytes(1)}
        shape == {[frame_type |-> "Ack", from |-> k, payload |-> pl] : pl \in pls}
                   \cup {[frame_type |-> t.type, from |-> t.from,
                          payload |-> KeyPayload(ToHex(Identity(k).x_pub))] :
                         t \in {[type |-> "Ack", from |-> to], [type |-> "Msg", from |-> k]}}
    IN  {[version |-> 1, frame_type |-> sh.frame_type, from |-> sh.from, to |-> to,
          seq |-> 0, ts |-> now, nonce |-> generate_nonce(now, Rand(conn[k])),
          payload |-> sh.payload, hmac |-> NoneOpt, sig |-> NoneOpt] : sh \in shape}

\* agent k writes one of these frames on its connection; the relay reads it
PeerSend(k) ==
    /\ conn[k] # 0
    /\ CanRead(conn[k], MaxSends)
    /\ \E f \in PeerFrames(k) :
         Decode(Encode(f)).ok /\ HandleFrame(conn[k], Decode(Encode(f)).frame)
    /\ UNCHANGED << clientVars, clockVars, auditVars, apiVars, secVars >>

\* two agents and the relay, the agents writing frames of their own
NextPeers ==
    \/ \E k \in AgentIds :
        \/ ClientConnect(k)
        \/ PeerSend(k)
        \/ ClientRecv(k)
    \/ \E c \in Conns :
        \/ SendAck(c)
        \/ RemovePending(c)
        \/ RoutePush(c)
        \/ FlushRoute(c)

SpecPeers == Init /\ [][NextPeers]_vars

\* the frame the recv() of client k takes in this step
Taken(k) == Decode(sent[conn[k]][rpos[k] + 1].dg).frame

\* recv() of client k returns a frame in this step
Recvd(k) ==
    /\ conn[k] # 0
    /\ rpos'[k] = rpos[k] + 1
    /\ Decode(sent[conn[k]][rpos[k] + 1].dg).ok

\* client.rs:186-190  frame is an Ack from somebody else than id whose payload
\* is JSON with a string relayXPub that is the hex of exactly 32 bytes
CarriesKey(id, frame) ==
    /\ frame.frame_type = "Ack"
    /\ frame.from # id
    /\ frame.payload.json
    /\ frame.payload.relayXPub.str
    /\ frame.payload.relayXPub.hex
    /\ frame.payload.relayXPub.len = 32

\* C33: the relay routes a frame of type Ack like any other frame that is not a
\* Connect, and a client takes relayXPub from every Ack whose from is not its
\* own id: an Ack that a connected agent addresses to another one, with the hex
\* of 32 bytes as relayXPub, replaces the relay key the recipient holds,
\* whoever the Ack names as sender and whatever key was held before.
C33_PeerOverwritesKey ==
    [][/\ \A c \in Conns :
            (Received(c) /\ rcvd'[c][Len(rcvd'[c])].frame_type = "Ack"
                         /\ rcvd'[c][Len(rcvd'[c])].to \in DOMAIN agents) =>
                LET f == rcvd'[c][Len(rcvd'[c])]
                    d == agents[f.to].connection
                IN  sent'[d] = Append(sent[d], [dg |-> Encode(f), via |-> "route"])
       /\ \A k \in AgentIds :
            (Recvd(k) /\ CarriesKey(Identity(k).id, Taken(k))) =>
                relay_x_pub'[k] = << Taken(k).payload.relayXPub.v >>]_vars

\* a client holds a key that came in an Ack from the other agent, and that key
\* replaced one that came in an earlier Ack from that agent
C33_Witness ==
    \E k \in AgentIds :
        LET m == OtherAgent(k)
        IN  /\ conn[k] # 0
            /\ rpos[k] = 3
            /\ Decode(sent[conn[k]][2].dg).frame.from = m
            /\ Decode(sent[conn[k]][3].dg).frame.from = m
            /\ CarriesKey(k, Decode(sent[conn[k]][2].dg).frame)
            /\ CarriesKey(k, Decode(sent[conn[k]][3].dg).frame)
            /\ Decode(sent[conn[k]][2].dg).frame.payload.relayXPub.v = Identity(m).x_pub
            /\ relay_x_pub[k] = << Identity(m).ed_pub >>

\* C34: recv() returns the frame as it was dequeued, and changes relay_x_pub
\* only when the frame is an Ack whose from is not the local agent id and
\* whose payload is JSON with relayXPub the hex of exactly 32 bytes; in every
\* other case relay_x_pub stays as it was, and recv() changes neither the
\* identity nor the sequence counters.
C34_RecvEffect ==
    [][\A k \in AgentIds :
         Recvd(k) =>
            /\ relay_x_pub'[k] =
                 IF CarriesKey(Identity(k).id, Taken(k))
                 THEN << Taken(k).payload.relayXPub.v >>
                 ELSE relay_x_pub[k]
            /\ Taken(k).frame_type # "Ack" => got'[k] = << Taken(k) >>
            /\ Taken(k) = Decode(sent[conn[k]][rpos'[k]].dg).frame
            /\ has_identity' = has_identity
            /\ cseq' = cseq
            /\ last_nonce' = last_nonce]_vars

\* a client holding a key has received an Ack with a key of 16 bytes, an Ack
\* under its own id and a Msg frame with a key, and holds the same key still
C34_Witness ==
    \E k \in AgentIds :
        /\ conn[k] # 0
        /\ rpos[k] = 3
        /\ CarriesKey(k, Decode(sent[conn[k]][2].dg).frame)
        /\ LET f == Decode(sent[conn[k]][3].dg).frame
           IN  /\ ~CarriesKey(k, f)
               /\ f.payload.json
               /\ f.payload.relayXPub.str
               /\ f.frame_type = "Ack" => f.payload.relayXPub.len = 16
               /\ relay_x_pub[k] = << Decode(sent[conn[k]][2].dg).frame.payload.relayXPub.v >>

\* ---------------------------------------------------------------- stream frames
\* client.rs:162-165  the JSON object {channelId, data}
StreamPayload ==
    [json |-> TRUE, edPub |-> NoStr, xPub |-> NoStr, relayXPub |-> NoStr, data |-> 3]

\* a send_stream that addresses the other agent
StreamFrameToPeer(identity, peer_x_pub, seq, t, rand) ==
    create_auth_frame(identity, peer_x_pub, "Stream", OtherAgent(identity.id), StreamPayload,
                      seq, t, rand)

\* client.rs:167-173  the frame send_stream builds
StreamFrame(identity, peer_x_pub, seq, t, rand) ==
    create_auth_frame(identity, peer_x_pub, "Stream", Broadcast, StreamPayload, seq, t, rand)

\* client.rs:157-179  send_stream(channel, data); the relay reads the frame
ClientSendStream(k) ==
    /\ conn[k] # 0
    /\ CanRead(conn[k], MaxSends)
    /\ LET peer_x_pub == IF relay_x_pub[k] = NoneOpt THEN ZeroKey ELSE relay_x_pub[k][1]
           frame == StreamFrame(Identity(k), peer_x_pub, last_nonce[k] + 1, now, Rand(conn[k]))
       IN  /\ Decode(Encode(frame)).ok
           /\ HandleFrame(conn[k], Decode(Encode(frame)).frame)
    /\ last_nonce' = [last_nonce EXCEPT ![k] = @ + 1]
    /\ UNCHANGED << clientVars, clockVars, auditVars, apiVars, nonce_window, accepts, ncalls >>

\* a peer opens a connection and registers the agent id "broadcast"
BroadcastConnect(c) ==
    /\ rcvd[c] = << >>
    /\ CanRead(c, MaxSends)
    /\ LET frame == [version |-> 1, frame_type |-> "Connect", from |-> Broadcast,
                     to |-> RelayId, seq |-> 0, ts |-> now,
                     nonce |-> generate_nonce(now, Rand(c)),
                     payload |-> ConnectPayload(Identity(Broadcast).ed_pub,
                                                Identity(Broadcast).x_pub),
                     hmac |-> NoneOpt, sig |-> NoneOpt]
       IN  /\ Decode(Encode(frame)).ok
           /\ HandleConnect(c, Decode(Encode(frame)).frame)
    /\ UNCHANGED << clientVars, clockVars, auditVars, apiVars, secVars >>

\* clients that stream, the relay, and a peer that may register "broadcast"
NextStream ==
    \/ \E k \in AgentIds :
        \/ ClientConnect(k)
        \/ ClientSendStream(k)
    \/ \E c \in Conns :
        \/ BroadcastConnect(c)
        \/ SendAck(c)
        \/ RemovePending(c)
        \/ RoutePush(c)
        \/ FlushRoute(c)

SpecStream == Init /\ [][NextStream]_vars

\* the relay transmits a Stream frame in this step
StreamSent ==
    \E c \in Conns :
        /\ Len(sent'[c]) = Len(sent[c]) + 1
        /\ sent'[c][Len(sent'[c])].via # "ack"
        /\ Decode(sent'[c][Len(sent'[c])].dg).frame.frame_type = "Stream"

\* C36: a frame of send_stream has type Stream and to = "broadcast".  The
\* relay transmits such a frame only when the agent id "broadcast" has a
\* record; otherwise it appends the frame to the offline queue under
\* "broadcast", one frame for each send_stream, and that queue is not drained
\* as long as no connection registers as "broadcast".
C36_StreamNeverDelivered ==
    [][/\ \A c \in Conns :
            (Received(c) /\ rcvd'[c][Len(rcvd'[c])].frame_type = "Stream") =>
                LET f == rcvd'[c][Len(rcvd'[c])]
                IN  /\ f.to = Broadcast
                    /\ Broadcast \notin DOMAIN agents =>
                         /\ sent' = sent
                         /\ pc'[c] = "rpush"
                         /\ cur'[c] = f
       /\ \A c \in Conns :
            (Pushed(c) /\ cur[c].frame_type = "Stream") =>
                /\ Broadcast \in DOMAIN pending'
                /\ pending'[Broadcast] =
                     (IF Broadcast \in DOMAIN pending THEN pending[Broadcast] ELSE << >>)
                        \o << cur[c] >>
       /\ StreamSent => Broadcast \in DOMAIN agents
       /\ (Broadcast \in DOMAIN pending /\ \A c \in Conns : agent_id[c] # Broadcast) =>
            /\ Broadcast \in DOMAIN pending'
            /\ IsPrefix(pending[Broadcast], pending'[Broadcast])]_vars

\* two frames of send_stream lie in the queue of "broadcast" while two agents
\* are connected and nobody has registered as "broadcast"
C36_Witness ==
    /\ Broadcast \in DOMAIN pending
    /\ Len(pending[Broadcast]) = 2
    /\ \A i \in 1..2 : pending[Broadcast][i].frame_type = "Stream"
    /\ Broadcast \notin DOMAIN agents
    /\ AgentIds \subseteq DOMAIN agents
    /\ \A c \in Conns : sent[c] = << >> \/ \A i \in 1..Len(sent[c]) : sent[c][i].via = "ack"

\* ---------------------------------------------------------------- datagrams that do not decode
\* the first connection the relay accepts
FirstConn == CHOOSE c \in Conns : \A d \in Conns : c <= d

\* one relay handler and the reader task of one client transport, each
\* receiving datagrams of which some do not decode
NextDecode ==
    \/ \E c \in {FirstConn} :
          \/ DecodeError(c)
          \/ OnConnect(c)
          \/ SendAck(c)
          \/ RemovePending(c)
          \/ OnFrame(c)
          \/ RoutePush(c)
    \/ TransportNew
    \/ TransportConnect
    \/ ReaderStep
    \/ ReaderExit

SpecDecode == Init /\ [][NextDecode]_vars

\* C37: a datagram that does not decode is skipped and is never fatal: the
\* relay handler that read it leaves agent_id, the agent table and the offline
\* queue as they were and goes on reading; the reader task of the client
\* queues nothing for it and keeps running.
C37_DecodeErrorSkipped ==
    [][/\ (nrecv' = nrecv + 1 /\ rcvd' = rcvd) =>
            /\ agent_id' = agent_id
            /\ agents' = agents
            /\ pending' = pending
            /\ pc' = pc
            /\ sent' = sent
       /\ ReaderStep =>
            \A d \in PeerDatagrams :
                ~Decode(d).ok =>
                    /\ Queued(transport[1], d) = transport[1]
                    /\ Queued(transport[1], d).reader \in {"running", "closing"}]_vars

\* a registered handler with a queued frame has skipped a datagram and is
\* reading again, and the client's reader task runs with a frame queued
C37_Witness ==
    /\ nrecv > Len(rcvd[FirstConn])
    /\ agent_id[FirstConn] \in DOMAIN agents
    /\ pc[FirstConn] = "read"
    /\ pending # EmptyMap
    /\ transport # NoneOpt
    /\ transport[1].reader = "running"
    /\ Len(transport[1].rx[1]) = 1
    /\ nops = MaxOps

\* ---------------------------------------------------------------- last_seen
\* one relay handler while the clock advances
NextSeen ==
    \/ Tick
    \/ \E c \in {FirstConn} :
          \/ OnConnect(c)
          \/ SendAck(c)
          \/ RemovePending(c)
          \/ OnFrame(c)
          \/ RoutePush(c)

SpecSeen == Init /\ [][NextSeen]_vars

\* C39: every frame the relay receives on a registered connection sets the
\* last_seen of that agent's record to the current time in seconds, and no
\* other field of a record that stays in the table changes.
C39_LastSeenTouched ==
    [][\A c \in Conns :
         (/\ Len(rcvd'[c]) = Len(rcvd[c]) + 1
          /\ agent_id[c] \in DOMAIN agents
          /\ agents[agent_id[c]].connection = c
          /\ rcvd'[c][Len(rcvd'[c])].frame_type # "Connect") =>
             /\ agent_id[c] \in DOMAIN agents'
             /\ agents'[agent_id[c]].last_seen = now \div 1000
             /\ agents'[agent_id[c]] = [agents[agent_id[c]] EXCEPT !.last_seen = now \div 1000]]_vars

====
